---- MODULE Spec2Model ----
(***************************************************************************)
(* Page-table manager of the PIOS kernel (kern/pmap.c): demand-allocated   *)
(* two-level page tables, reference-counted frames, copy-on-write copy and *)
(* three-way merge.                                                        *)
(*                                                                         *)
(* Physical memory is one array of 32-bit words per frame.  A page table   *)
(* and a data page are the same thing (a page holds PAGESIZE/4 words,      *)
(* which is NPTENTRIES), so a PTE is an integer: frame address plus flag   *)
(* bits, with the bit layout of the x86 and of inc/syscall.h.              *)
(*                                                                         *)
(* Virtual addresses are counted in pages from VM_USERLO (which is         *)
(* PTSIZE-aligned), sizes in pages: page alignment of va and size is       *)
(* therefore built in, PTSIZE is NPTENTRIES pages.                         *)
(***************************************************************************)
EXTENDS Integers, Sequences, FiniteSets, TLC

\* ---------------------------------------------------------------- bounds
NPTENTRIES == 2        \* entries per page table = words per page (1024 on x86)
UserPDEs   == 3        \* page-directory entries of the user window
NFrames    == 5        \* frames the allocator manages
MaxOps     == 3        \* operations per run

\* ------------------------------------------------------- program constants
PAGESIZE  == 4096
PTE_P     == 1
PTE_W     == 2
PTE_U     == 4
PTE_A     == 32
PTE_PS    == 128
PTE_G     == 256
SYS_READ  == 512
SYS_WRITE == 1024
SYS_RW    == 1536
SYS_TYPE  == 15
SYS_CPUTS == 0
SYS_PUT   == 1
SYS_GET   == 2
SYS_RET   == 3

T_GPFLT      == 13
T_PGFLT      == 14
T_IRQ0       == 32
T_SYSCALL    == 48
T_LTIMER     == 49
IRQ_KBD      == 1
IRQ_SERIAL   == 4
IRQ_SPURIOUS == 7
IRQ_IDE      == 14
e100_irq     == 11                    \* the interrupt line the PCI probe found

\* User addresses and sizes count 32-bit words, so that the 2^32 bytes of
\* uint32_t and size_t are the 2^30 words of Word32.
Word32         == 1073741824          \* uint32_t and size_t count modulo this
VM_USERLO_ADDR == 268435456           \* VM_USERLO, 0x40000000 bytes
VM_USERHI_ADDR == 1006632960          \* VM_USERHI, 0xF0000000 bytes
PageWords      == 1024                \* PAGESIZE bytes
HackEip        == 1050952             \* 0x100948
KernEip        == HackEip + 2         \* an instruction of memmove
ResumeEip      == KernEip + 2         \* trap_check's after_... labels
UserEip        == VM_USERLO_ADDR + PageWords
KernData       == 9                   \* the word that usercopy copies out

ZeroFrame == 1                        \* the frame of pmap_zero
Frames    == 0 .. (NFrames + 1)
UserFrames == 2 .. (NFrames + 1)      \* frames handed out by mem_alloc
Dirs      == {"p", "c", "r"}          \* a process, its child, the child's snapshot
VM_USERHI == UserPDEs * NPTENTRIES    \* in pages from VM_USERLO
PTSIZE    == NPTENTRIES               \* in pages
VPages    == 0 .. (VM_USERHI - 1)
PTIdx     == 0 .. (NPTENTRIES - 1)
PDIdx     == 0 .. (UserPDEs - 1)
KernIdx   == {-1, UserPDEs}             \* the PDEs next to the user window
PDXLO     == 256                        \* PDX(VM_USERLO)

PTE_ZERO  == ZeroFrame * PAGESIZE     \* address of pmap_zero, no flag set
NULLPI    == -1                       \* mem_alloc's NULL
NULL      == [f |-> -1, i |-> 0]      \* a NULL pte_t *

\* ------------------------------------------------------------- bit algebra
RECURSIVE BitAnd(_, _)
BitAnd(x, y) ==
    IF x = 0 \/ y = 0 THEN 0
    ELSE (x % 2) * (y % 2) + 2 * BitAnd(x \div 2, y \div 2)
BitOr(x, y)     == x + y - BitAnd(x, y)
BitClear(x, y)  == x - BitAnd(x, y)          \* x & ~y
Has(x, bits)    == BitAnd(x, bits) # 0

PGADDR(x) == x - (x % PAGESIZE)
PGOFF(x)  == x % PAGESIZE
mem_pi2phys(pi) == pi * PAGESIZE
mem_phys2pi(pa) == pa \div PAGESIZE
PDX(va) == va \div NPTENTRIES
PTX(va) == va % NPTENTRIES
ROUNDUP(va, n)   == ((va + n - 1) \div n) * n
ROUNDDOWN(va, n) == (va \div n) * n

\* the array over lo..hi with v in every element
RECURSIVE Filled(_, _, _)
Filled(lo, hi, v) ==
    IF lo >= hi THEN lo :> v ELSE (lo :> v) @@ Filled(lo + 1, hi, v)

\* ------------------------------------------------------------ the machine
\* rc: refcount of each frame; fl: the free list, head first; mem: the words
\* of each frame; pd: the user-range PDEs of each page directory;
\* fault: "none", or why the kernel stopped (a failed assert, a NULL
\* dereference, a frame the allocator does not manage passed to it).
Fail(m, why) == IF m.fault = "none" THEN [m EXCEPT !.fault = why] ELSE m
Ok(m)        == m.fault = "none"
Deref(m, p)     == m.mem[p.f][p.i]
Store(m, p, v)  == IF m.fault = "none" THEN [m EXCEPT !.mem[p.f][p.i] = v] ELSE m
Ptr(frame, idx) == [f |-> frame, i |-> idx]

\* ---------------------------------------------------- the frame allocator
mem_alloc(m) ==
    IF m.fl = <<>> THEN [m |-> m, pi |-> NULLPI]
    ELSE [m |-> [m EXCEPT !.fl = Tail(m.fl)], pi |-> Head(m.fl)]

mem_free(m, pi) ==
    IF ~Ok(m) THEN m
    ELSE IF pi \notin UserFrames THEN Fail(m, "allocator")
    ELSE [m EXCEPT !.fl = <<pi>> \o m.fl]

mem_incref(m, pi) ==
    IF ~Ok(m) THEN m
    ELSE IF pi \notin UserFrames THEN Fail(m, "allocator")
    ELSE [m EXCEPT !.rc[pi] = @ + 1]

\* mem_decref(pi, freefun): freefun is mem_free or pmap_freeptab
RECURSIVE mem_decref(_, _, _)
RECURSIVE freeptab_loop(_, _, _)

\* pmap_freeptab's loop over the entries of the page table, from entry i on
freeptab_loop(m, ptabpi, i) ==
    IF ~Ok(m) \/ i >= NPTENTRIES THEN m
    ELSE LET pgaddr == PGADDR(m.mem[ptabpi][i])
             m1 == IF pgaddr # PTE_ZERO
                   THEN mem_decref(m, mem_phys2pi(pgaddr), "mem_free")
                   ELSE m
         IN  freeptab_loop(m1, ptabpi, i + 1)

pmap_freeptab(m, ptabpi) ==
    mem_free(freeptab_loop(m, ptabpi, 0), ptabpi)

mem_decref(m, pi, freefun) ==
    IF ~Ok(m) THEN m
    ELSE IF pi \notin UserFrames THEN Fail(m, "allocator")
    ELSE LET m1 == [m EXCEPT !.rc[pi] = @ - 1]
         IN  IF m1.rc[pi] # 0 THEN m1
             ELSE IF freefun = "pmap_freeptab" THEN pmap_freeptab(m1, pi)
             ELSE mem_free(m1, pi)

\* --------------------------------------------------------------- pmap_walk
\* walk_alloc leaving in the new page table what the frame held
walk_alloc_noclear(a, pdir, va) ==
    IF a.pi = NULLPI THEN [m |-> a.m, pte |-> NULL]
    ELSE [m |-> [mem_incref(a.m, a.pi) EXCEPT
                    !.pd[pdir][PDX(va)] =
                        mem_pi2phys(a.pi) + PTE_A + PTE_P + PTE_W + PTE_U],
          pte |-> Ptr(a.pi, PTX(va))]

\* lines 178-196: a is what mem_alloc returned for the new page table
walk_alloc(a, pdir, va) ==
    IF a.pi = NULLPI THEN [m |-> a.m, pte |-> NULL]
    ELSE [m |-> [mem_incref(a.m, a.pi) EXCEPT
                    !.mem[a.pi] = Filled(0, NPTENTRIES - 1, PTE_ZERO),
                    !.pd[pdir][PDX(va)] =
                        mem_pi2phys(a.pi) + PTE_A + PTE_P + PTE_W + PTE_U],
          pte |-> Ptr(a.pi, PTX(va))]

pmap_walk(m, pdir, va, writing) ==
    IF ~Ok(m) THEN [m |-> m, pte |-> NULL]
    ELSE IF va < 0 \/ va >= VM_USERHI THEN [m |-> Fail(m, "assert"), pte |-> NULL]
    ELSE IF m.pd[pdir][PDX(va)] = PTE_ZERO
    THEN IF writing THEN walk_alloc(mem_alloc(m), pdir, va)
         ELSE [m |-> m, pte |-> NULL]
    ELSE [m |-> m,
          pte |-> Ptr(mem_phys2pi(PGADDR(m.pd[pdir][PDX(va)])), PTX(va))]

\* ------------------------------------------------------------- pmap_remove
\* remove_pte forgetting mem_decref
remove_pte_nodecref(w) ==
    IF PGADDR(Deref(w.m, w.pte)) # PTE_ZERO
    THEN Store(w.m, w.pte, PTE_ZERO)
    ELSE w.m

\* lines 288-292 and 318-322: w is what pmap_walk returned for the slot
remove_pte(w) ==
    IF PGADDR(Deref(w.m, w.pte)) # PTE_ZERO
    THEN Store(mem_decref(w.m, mem_phys2pi(PGADDR(Deref(w.m, w.pte))), "mem_free"),
               w.pte, PTE_ZERO)
    ELSE w.m

\* one 4KB slot of the head span or of the tail span
remove_slot(m, pdir, va) ==
    IF m.pd[pdir][PDX(va)] = PTE_ZERO THEN m
    ELSE remove_pte(pmap_walk(m, pdir, va, TRUE))

\* the three loops; s.m is the machine and s.va the loop variable va
RECURSIVE remove_head(_, _, _)
remove_head(s, pdir, toppage) ==
    IF Ok(s.m) /\ s.va < ROUNDUP(s.va, PTSIZE) /\ s.va < toppage
    THEN remove_head([m |-> remove_slot(s.m, pdir, s.va), va |-> s.va + 1],
                     pdir, toppage)
    ELSE s

\* remove_bulk clearing the PDEs and leaving the page tables allocated
RECURSIVE remove_bulk_keeptab(_, _, _)
remove_bulk_keeptab(s, pdir, toppage) ==
    IF Ok(s.m) /\ s.va + PTSIZE <= ROUNDDOWN(toppage, PTSIZE)
       /\ toppage - s.va >= PTSIZE
    THEN remove_bulk_keeptab(
             [m |-> [s.m EXCEPT !.pd[pdir][PDX(s.va)] = PTE_ZERO],
              va |-> s.va + PTSIZE],
             pdir, toppage)
    ELSE s

RECURSIVE remove_bulk(_, _, _)
remove_bulk(s, pdir, toppage) ==
    IF Ok(s.m) /\ s.va + PTSIZE <= ROUNDDOWN(toppage, PTSIZE)
       /\ toppage - s.va >= PTSIZE
    THEN remove_bulk(
             [m |-> IF s.m.pd[pdir][PDX(s.va)] # PTE_ZERO
                    THEN [mem_decref(s.m, mem_phys2pi(PGADDR(s.m.pd[pdir][PDX(s.va)])),
                                     "pmap_freeptab")
                             EXCEPT !.pd[pdir][PDX(s.va)] = PTE_ZERO]
                    ELSE s.m,
              va |-> s.va + PTSIZE],
             pdir, toppage)
    ELSE s

RECURSIVE remove_tail(_, _, _)
remove_tail(s, pdir, toppage) ==
    IF Ok(s.m) /\ s.va < toppage
    THEN remove_tail([m |-> remove_slot(s.m, pdir, s.va), va |-> s.va + 1],
                     pdir, toppage)
    ELSE s.m

pmap_remove(m, pdir, va, size) ==
    IF ~Ok(m) THEN m
    ELSE IF ~(va >= 0 /\ va < VM_USERHI /\ size <= VM_USERHI - va)
    THEN Fail(m, "assert")
    ELSE remove_tail(remove_bulk(remove_head([m |-> m, va |-> va],
                                             pdir, va + size),
                                 pdir, va + size),
                     pdir, va + size)

\* ------------------------------------------------------------- pmap_insert
\* pmap_insert_ref forgetting mem_incref
pmap_insert_ref_noincref(w, pdir, pi, va) ==
    [m |-> w.m, pte |-> w.pte]

\* pmap_insert_ref removing the old mapping before it takes its reference
pmap_insert_ref_swapped(w, pdir, pi, va) ==
    IF w.pte = NULL THEN [m |-> w.m, pte |-> NULL]
    ELSE [m |-> mem_incref(IF Deref(w.m, w.pte) # PTE_ZERO
                           THEN pmap_remove(w.m, pdir, va, 1)
                           ELSE w.m,
                           pi),
          pte |-> w.pte]

\* pmap_insert_ref taking its reference before it looks at pmap_walk's result
pmap_insert_ref_eager(w, pdir, pi, va) ==
    [m |-> mem_incref(w.m, pi), pte |-> w.pte]

\* pmap_insert after pmap_walk returned w, up to and including mem_incref
\* (lines 234-237)
pmap_insert_ref(w, pdir, pi, va) ==
    IF w.pte = NULL THEN [m |-> w.m, pte |-> NULL]
    ELSE [m |-> mem_incref(w.m, pi), pte |-> w.pte]

\* pmap_insert_map overwriting the old mapping without pmap_remove
pmap_insert_map_noremove(m, pdir, pi, va, perm, pte) ==
    Store(m, pte, BitOr(BitOr(mem_pi2phys(pi), perm), PTE_P))

\* the rest of pmap_insert (lines 239-244)
pmap_insert_map(m, pdir, pi, va, perm, pte) ==
    Store(IF Deref(m, pte) # PTE_ZERO THEN pmap_remove(m, pdir, va, 1) ELSE m,
          pte, BitOr(BitOr(mem_pi2phys(pi), perm), PTE_P))

\* pmap_insert from line 239 on, r being what pmap_insert_ref returned
insert_done(r, pdir, pi, va, perm) ==
    IF r.pte = NULL \/ ~Ok(r.m) THEN r.m
    ELSE pmap_insert_map(r.m, pdir, pi, va, perm, r.pte)

\* pmap_insert as one call
pmap_insert(m, pdir, pi, va, perm) ==
    insert_done(pmap_insert_ref(pmap_walk(m, pdir, va, TRUE), pdir, pi, va),
                pdir, pi, va, perm)

\* ------------------------------------------------------------ pmap_setperm
\* lines 599-600: w is what pmap_walk returned for the page
setperm_pte(w, perm) ==
    IF w.pte = NULL THEN Fail(w.m, "assert")
    ELSE Store(w.m, w.pte, BitOr(Deref(w.m, w.pte), BitOr(perm, PTE_U)))

RECURSIVE setperm_loop(_, _, _, _, _)
setperm_loop(m, pdir, a, top, perm) ==
    IF ~Ok(m) \/ a >= top THEN m
    ELSE setperm_loop(setperm_pte(pmap_walk(m, pdir, a, TRUE), perm),
                      pdir, a + 1, top, perm)

pmap_setperm(m, pdir, va, size, perm) ==
    IF ~Ok(m) THEN m
    ELSE IF ~(va >= 0 /\ va < VM_USERHI /\ size <= VM_USERHI - va
              /\ BitClear(perm, SYS_RW) = 0)
    THEN Fail(m, "assert")
    ELSE setperm_loop(m, pdir, va, va + size, perm)

\* copy_perm leaving the hardware write permission in place
copy_perm_keepw(entry) ==
    LET perm == BitOr(PGOFF(entry), SYS_READ) IN
    IF Has(perm, PTE_W) \/ Has(perm, SYS_WRITE)
    THEN BitOr(perm, SYS_WRITE)
    ELSE perm

\* --------------------------------------------------------------- pmap_copy
\* lines 381-384: the permission bits an entry gets
copy_perm(entry) ==
    LET perm == BitOr(PGOFF(entry), SYS_READ) IN
    IF Has(perm, PTE_W) \/ Has(perm, SYS_WRITE)
    THEN BitOr(BitClear(perm, PTE_W), SYS_WRITE)
    ELSE perm

\* the loop over the entries of the source page table (lines 379-386)
RECURSIVE copy_entries(_, _, _)
copy_entries(m, ptab, i) ==
    IF ~Ok(m) \/ i >= NPTENTRIES THEN m
    ELSE IF PGADDR(m.mem[ptab][i]) = PGADDR(PTE_ZERO)
    THEN copy_entries(m, ptab, i + 1)
    ELSE copy_entries(
             mem_incref([m EXCEPT !.mem[ptab][i] = BitOr(PGADDR(@), copy_perm(@))],
                        mem_phys2pi(PGADDR(m.mem[ptab][i]))),
             ptab, i + 1)

\* copy_check with line 392 left out
copy_check_norc(m, spdir, sx, dpdir, dx, pi) ==
    IF PGADDR(m.pd[spdir][sx]) = PGADDR(m.pd[dpdir][dx])
    THEN Fail(m, "assert")
    ELSE m

\* lines 390-392: the assert and the new page table's refcount
copy_check(m, spdir, sx, dpdir, dx, pi) ==
    IF PGADDR(m.pd[spdir][sx]) = PGADDR(m.pd[dpdir][dx])
    THEN Fail(m, "assert")
    ELSE [m EXCEPT !.rc[pi] = 1]

\* lines 388-392: the source page table copied into frame pi and installed
copy_table(m, spdir, sx, dpdir, dx, pi) ==
    copy_check([m EXCEPT
                   !.mem[pi] = m.mem[mem_phys2pi(PGADDR(m.pd[spdir][sx]))],
                   !.pd[dpdir][dx] = BitOr(PGADDR(mem_pi2phys(pi)),
                                           PGOFF(m.pd[spdir][sx]))],
               spdir, sx, dpdir, dx, pi)

\* the loop with the entries of the source table write-protected before
\* the frame for the copy is asked for
RECURSIVE copy_pdes_early(_, _, _, _, _, _)
copy_pdes_early(m, spdir, sx, dpdir, dx, k) ==
    IF ~Ok(m) THEN [m |-> m, ret |-> 0]
    ELSE IF k = 0 THEN [m |-> m, ret |-> 1]
    ELSE IF PGADDR(m.pd[spdir][sx]) = PTE_ZERO
    THEN copy_pdes_early([m EXCEPT !.pd[dpdir][dx] = m.pd[spdir][sx]],
                         spdir, sx + 1, dpdir, dx + 1, k - 1)
    ELSE IF mem_alloc(m).pi = NULLPI
    THEN [m |-> copy_entries(m, mem_phys2pi(PGADDR(m.pd[spdir][sx])), 0),
          ret |-> 0]
    ELSE copy_pdes_early(copy_table(copy_entries(mem_alloc(m).m,
                                           mem_phys2pi(PGADDR(m.pd[spdir][sx])), 0),
                              spdir, sx, dpdir, dx, mem_alloc(m).pi),
                         spdir, sx + 1, dpdir, dx + 1, k - 1)

\* the loop over the page directory entries (lines 372-394); k counts PDEs
RECURSIVE copy_pdes(_, _, _, _, _, _)
copy_pdes(m, spdir, sx, dpdir, dx, k) ==
    IF ~Ok(m) THEN [m |-> m, ret |-> 0]
    ELSE IF k = 0 THEN [m |-> m, ret |-> 1]
    ELSE IF PGADDR(m.pd[spdir][sx]) = PTE_ZERO
    THEN copy_pdes([m EXCEPT !.pd[dpdir][dx] = m.pd[spdir][sx]],
                   spdir, sx + 1, dpdir, dx + 1, k - 1)
    ELSE IF mem_alloc(m).pi = NULLPI THEN [m |-> m, ret |-> 0]
    ELSE copy_pdes(copy_table(copy_entries(mem_alloc(m).m,
                                           mem_phys2pi(PGADDR(m.pd[spdir][sx])), 0),
                              spdir, sx, dpdir, dx, mem_alloc(m).pi),
                   spdir, sx + 1, dpdir, dx + 1, k - 1)

\* pmap_copy without its asserts on the destination range
pmap_copy_norange(m, spdir, sva, dpdir, dva, size) ==
    IF ~Ok(m) THEN [m |-> m, ret |-> 0]
    ELSE IF ~(sva % PTSIZE = 0 /\ dva % PTSIZE = 0 /\ size % PTSIZE = 0
              /\ sva >= 0 /\ sva < VM_USERHI /\ size <= VM_USERHI - sva)
    THEN [m |-> Fail(m, "assert"), ret |-> 0]
    ELSE copy_pdes(m, spdir, PDX(sva), dpdir, PDX(dva), size \div PTSIZE)

pmap_copy(m, spdir, sva, dpdir, dva, size) ==
    IF ~Ok(m) THEN [m |-> m, ret |-> 0]
    ELSE IF ~(sva % PTSIZE = 0 /\ dva % PTSIZE = 0 /\ size % PTSIZE = 0
              /\ sva >= 0 /\ sva < VM_USERHI /\ dva >= 0 /\ dva < VM_USERHI
              /\ size <= VM_USERHI - sva /\ size <= VM_USERHI - dva)
    THEN [m |-> Fail(m, "assert"), ret |-> 0]
    ELSE copy_pdes(m, spdir, PDX(sva), dpdir, PDX(dva), size \div PTSIZE)

\* ---------------------------------------------------------- pmap_pagefault
\* *pte = PGADDR(*pte) | perm (lines 449 and 491)
retag(m, pte, perm) == Store(m, pte, BitOr(PGADDR(Deref(m, pte)), perm))

\* lines 442-443 and 487-488: the reference of the frame that was copied
cow_release(m, pte) ==
    IF PGADDR(Deref(m, pte)) # PTE_ZERO
    THEN mem_decref(m, mem_phys2pi(PGADDR(Deref(m, pte))), "mem_free")
    ELSE m

\* lines 440-444 and 485-489: a is what mem_alloc returned, unchecked
cow_into(a, pte) ==
    IF a.pi = NULLPI THEN Fail(a.m, "null_deref")
    ELSE Store(cow_release([a.m EXCEPT
                               !.rc[a.pi] = 1,
                               !.mem[a.pi] =
                                   a.m.mem[mem_phys2pi(PGADDR(Deref(a.m, pte)))]],
                           pte),
               pte, mem_pi2phys(a.pi))

\* the page copy on demand of lines 439-444 and 484-489
cow_copy(m, pte) == cow_into(mem_alloc(m), pte)

\* lines 448-450 on the machine m that the copy left
pagefault_resolve(m, pte, permissions) ==
    [m |-> retag(m, pte, BitClear(BitOr(BitOr(permissions, PTE_W), PTE_P), SYS_RW)),
     resolved |-> Ok(m)]

\* pagefault_pte taking a frame that others map too for its own
pagefault_pte_nocopy(m, pte, hackeip) ==
    LET permissions == PGOFF(Deref(m, pte))
        pi == mem_phys2pi(PGADDR(Deref(m, pte)))
    IN  IF ~Has(permissions, PTE_W) /\ Has(permissions, SYS_WRITE)
        THEN pagefault_resolve(IF mem_pi2phys(pi) = PTE_ZERO
                               THEN cow_copy(m, pte)
                               ELSE m,
                               pte, permissions)
        ELSE IF hackeip
        THEN [m |-> Store(m, pte, BitOr(Deref(m, pte), PTE_P + PTE_W)),
              resolved |-> TRUE]
        ELSE [m |-> m, resolved |-> FALSE]

\* lines 434-462 with pte not NULL; hackeip: tf->eip == 0x100948
pagefault_pte(m, pte, hackeip) ==
    LET permissions == PGOFF(Deref(m, pte))
        pi == mem_phys2pi(PGADDR(Deref(m, pte)))
    IN  IF ~Has(permissions, PTE_W) /\ Has(permissions, SYS_WRITE)
        THEN pagefault_resolve(IF mem_pi2phys(pi) = PTE_ZERO \/ m.rc[pi] > 1
                               THEN cow_copy(m, pte)
                               ELSE m,
                               pte, permissions)
        ELSE IF hackeip
        THEN [m |-> Store(m, pte, BitOr(Deref(m, pte), PTE_P + PTE_W)),
              resolved |-> TRUE]
        ELSE [m |-> m, resolved |-> FALSE]

\* Line 426 reads *pte before line 428 tests pte: with pte NULL either the
\* read of address 0 goes through and the function returns at 430
\* (nullread), or the kernel is lost.
pagefault_walked(w, hackeip, nullread) ==
    IF w.pte = NULL
    THEN [m |-> IF nullread THEN w.m ELSE Fail(w.m, "null_deref"),
          resolved |-> FALSE]
    ELSE pagefault_pte(w.m, w.pte, hackeip)

pmap_pagefault(m, pdir, fva, hackeip, nullread) ==
    IF ~Ok(m) THEN [m |-> m, resolved |-> FALSE]
    ELSE IF fva < 0 \/ fva >= VM_USERHI THEN [m |-> m, resolved |-> FALSE]
    ELSE pagefault_walked(pmap_walk(m, pdir, fva, TRUE), hackeip, nullread)

\* ---------------------------------------------------------- pmap_mergepage
\* merge_words finding the conflicts but never storing a source word
RECURSIVE merge_words_nostore(_, _, _, _, _, _)
merge_words_nostore(m, rf, sf, df, dpte, i) ==
    IF ~Ok(m) \/ i >= NPTENTRIES THEN [m |-> m, conflict |-> FALSE]
    ELSE IF /\ m.mem[rf][i] # m.mem[sf][i]
            /\ m.mem[rf][i] # m.mem[df][i]
            /\ m.mem[sf][i] # m.mem[df][i]
    THEN [m |-> Store(mem_decref(m, mem_phys2pi(PGADDR(Deref(m, dpte))), "mem_free"),
                      dpte, PTE_ZERO),
          conflict |-> TRUE]
    ELSE merge_words_nostore(m, rf, sf, df, dpte, i + 1)

\* the word loop of lines 500-511; rf, sf, df are the frames of the pages
RECURSIVE merge_words(_, _, _, _, _, _)
merge_words(m, rf, sf, df, dpte, i) ==
    IF ~Ok(m) \/ i >= NPTENTRIES THEN [m |-> m, conflict |-> FALSE]
    ELSE IF m.mem[rf][i] # m.mem[sf][i]
    THEN IF m.mem[rf][i] # m.mem[df][i] /\ m.mem[sf][i] # m.mem[df][i]
         THEN [m |-> Store(mem_decref(m, mem_phys2pi(PGADDR(Deref(m, dpte))),
                                      "mem_free"),
                           dpte, PTE_ZERO),
               conflict |-> TRUE]
         ELSE merge_words([m EXCEPT !.mem[df][i] = m.mem[sf][i]],
                          rf, sf, df, dpte, i + 1)
    ELSE merge_words(m, rf, sf, df, dpte, i + 1)

\* the copy of a read-shared destination, lines 477-492
mergepage_cow(m, dpte) ==
    LET d_perm == PGOFF(Deref(m, dpte))
        dpi == mem_phys2pi(PGADDR(Deref(m, dpte)))
    IN  IF Has(d_perm, PTE_P) /\ ~Has(d_perm, PTE_W) /\ Has(d_perm, SYS_WRITE)
           /\ (PGADDR(Deref(m, dpte)) = PTE_ZERO \/ m.rc[dpi] >= 1)
        THEN retag(IF m.rc[dpi] > 1 THEN cow_copy(m, dpte) ELSE m,
                   dpte, BitClear(BitOr(d_perm, PTE_W), SYS_RW))
        ELSE m

\* lines 494-511 on the machine m that mergepage_cow left
mergepage_words(m, rpte, spte, dpte) ==
    IF ~Ok(m) THEN [m |-> m, conflict |-> FALSE]
    ELSE merge_words(m, mem_phys2pi(PGADDR(Deref(m, rpte))),
                        mem_phys2pi(PGADDR(Deref(m, spte))),
                        mem_phys2pi(PGADDR(Deref(m, dpte))), dpte, 0)

pmap_mergepage(m, rpte, spte, dpte) ==
    mergepage_words(mergepage_cow(m, dpte), rpte, spte, dpte)

\* -------------------------------------------------------------- pmap_merge
\* lines 562-565: the source PTE spte made copy-on-write and stored at dpte too
adopt_store(m, spte, dpte) ==
    Store(Store(m, spte,
                BitClear(IF Has(PGOFF(Deref(m, spte)), PTE_W)
                            \/ Has(PGOFF(Deref(m, spte)), SYS_WRITE)
                         THEN BitOr(Deref(m, spte), SYS_WRITE)
                         ELSE Deref(m, spte),
                         PTE_W)),
          dpte,
          BitClear(IF Has(PGOFF(Deref(m, spte)), PTE_W)
                      \/ Has(PGOFF(Deref(m, spte)), SYS_WRITE)
                   THEN BitOr(Deref(m, spte), SYS_WRITE)
                   ELSE Deref(m, spte),
                   PTE_W))

\* lines 558-565: changed only at the source
merge_adopt(m, spte, dpte) ==
    adopt_store(mem_incref(IF PGADDR(Deref(m, dpte)) # PTE_ZERO
                           THEN mem_decref(m, mem_phys2pi(PGADDR(Deref(m, dpte))),
                                           "mem_free")
                           ELSE m,
                           mem_phys2pi(PGADDR(Deref(m, spte)))),
                spte, dpte)

\* what pmap_mergepage did, as the outcome of a slot
merged(mp) == [m |-> mp.m, kind |-> "mergepage", conflict |-> mp.conflict]

\* lines 553-570 with the three pointers that pmap_walk returned; a NULL one
\* is dereferenced at 554.  kind: "same", "adopt" (changed only at source),
\* "mergepage", "fault"
merge_ptes(m, rpte, spte, dpte) ==
    IF rpte = NULL \/ spte = NULL \/ dpte = NULL
    THEN [m |-> Fail(m, "null_deref"), kind |-> "fault", conflict |-> FALSE]
    ELSE IF Deref(m, spte) = Deref(m, rpte) /\ Deref(m, dpte) = Deref(m, rpte)
    THEN [m |-> m, kind |-> "same", conflict |-> FALSE]
    ELSE IF Deref(m, dpte) = Deref(m, rpte) /\ Deref(m, spte) # Deref(m, rpte)
    THEN [m |-> merge_adopt(m, spte, dpte), kind |-> "adopt", conflict |-> FALSE]
    ELSE merged(pmap_mergepage(m, rpte, spte, dpte))

\* one iteration of the loop over the 4KB slots (lines 549-571), at offset i
merge_slot(m, rpdir, spdir, sva, dpdir, dva, i) ==
    merge_ptes(m, pmap_walk(m, rpdir, sva + i, FALSE).pte,
                  pmap_walk(m, spdir, sva + i, FALSE).pte,
                  pmap_walk(m, dpdir, dva + i, FALSE).pte)

\* the loop of lines 536-573 from offset i on
RECURSIVE merge_loop(_, _, _, _, _, _, _, _)
merge_loop(m, rpdir, spdir, sva, dpdir, dva, size, i) ==
    IF ~Ok(m) \/ i >= size THEN m
    ELSE IF i % PTSIZE = 0
            /\ m.pd[spdir][PDX(sva + i)] = m.pd[rpdir][PDX(sva + i)]
    THEN merge_loop(m, rpdir, spdir, sva, dpdir, dva, size, i + PTSIZE)
    ELSE merge_loop(merge_slot(m, rpdir, spdir, sva, dpdir, dva, i).m,
                    rpdir, spdir, sva, dpdir, dva, size, i + 1)

pmap_merge(m, rpdir, spdir, sva, dpdir, dva, size) ==
    IF ~Ok(m) THEN m
    ELSE IF ~(sva % PTSIZE = 0 /\ dva % PTSIZE = 0 /\ size % PTSIZE = 0
              /\ sva >= 0 /\ sva < VM_USERHI /\ dva >= 0 /\ dva < VM_USERHI
              /\ size <= VM_USERHI - sva /\ size <= VM_USERHI - dva)
    THEN Fail(m, "assert")
    ELSE merge_loop(m, rpdir, spdir, sva, dpdir, dva, size, 0)

\* ------------------------------------------------- a write by user code
\* What the MMU does with a user-mode store (CR0.WP set): the store goes
\* through when PDE and PTE are both present, writable and user-accessible,
\* and raises a page fault otherwise.
CanWrite(m, pdir, va) ==
    LET pde == m.pd[pdir][PDX(va)] IN
    /\ Has(pde, PTE_P) /\ Has(pde, PTE_W) /\ Has(pde, PTE_U)
    /\ LET pte == m.mem[mem_phys2pi(PGADDR(pde))][PTX(va)]
       IN  Has(pte, PTE_P) /\ Has(pte, PTE_W) /\ Has(pte, PTE_U)

FrameAt(m, pdir, va) ==
    mem_phys2pi(PGADDR(m.mem[mem_phys2pi(PGADDR(m.pd[pdir][PDX(va)]))][PTX(va)]))

DoStore(m, pdir, va, idx, val) ==
    [m EXCEPT !.mem[FrameAt(m, pdir, va)][idx] = val]

\* the faulting store executed again after pmap_pagefault returned pf
write_retry(pf, pdir, va, idx, val) ==
    IF pf.resolved /\ CanWrite(pf.m, pdir, va)
    THEN [m |-> DoStore(pf.m, pdir, va, idx, val), faulted |-> TRUE, done |-> TRUE]
    ELSE [m |-> pf.m, faulted |-> TRUE, done |-> FALSE]

\* trap() on T_PGFLT from user mode with no recovery hook: pmap_pagefault,
\* which returns to the faulting instruction when it resolves the fault;
\* the instruction is then executed again.  An unresolved fault is
\* reflected to the parent and the store never happens.
user_write(m, pdir, va, idx, val, nullread) ==
    IF CanWrite(m, pdir, va)
    THEN [m |-> DoStore(m, pdir, va, idx, val), faulted |-> FALSE, done |-> TRUE]
    ELSE write_retry(pmap_pagefault(m, pdir, va, FALSE, nullread),
                     pdir, va, idx, val)

\* the PTE of va in pdir, PTE_ZERO when there is no page table
PteAt(m, pd, va) ==
    IF m.pd[pd][PDX(va)] = PTE_ZERO THEN PTE_ZERO
    ELSE m.mem[mem_phys2pi(PGADDR(m.pd[pd][PDX(va)]))][PTX(va)]

\* ------------------------------------------------------------- pmap_inval
\* The directory of the process that runs on the CPU, proc_cur()->pdir: the
\* parent's.  cpu0.proc is that directory, or "NULL" while no process is
\* current (boot, pmap_check); cpu0.cr3 is the directory that is installed;
\* cpu0.tlb holds the translations of pages of the user window that the TLB
\* has cached from it, as records of va and PTE.
CurDir == "p"

\* pmap_inval that flushes nothing
pmap_inval_nothing(cpu0, pdir, va, size) == cpu0

\* pmap_inval(pdir, va, size), lines 337-343: invlpg for one page, lcr3 for
\* any other size
pmap_inval(cpu0, pdir, va, size) ==
    IF cpu0.proc # "NULL" /\ cpu0.proc # pdir THEN cpu0
    ELSE IF size = 1
    THEN [cpu0 EXCEPT !.tlb = {e \in @ : e.va # va}]
    ELSE [cpu0 EXCEPT !.tlb = {}, !.cr3 = pdir]

\* the instruction that pmap_inval issues (lines 338-342)
inval_op(cpu0, pdir, va, size) ==
    IF cpu0.proc # "NULL" /\ cpu0.proc # pdir THEN "none"
    ELSE IF size = 1 THEN "invlpg"
    ELSE "lcr3"

\* the other process runs and this one again: lcr3 both times
proc_switch(cpu0, pdir) ==
    IF pdir # CurDir THEN [cpu0 EXCEPT !.tlb = {}] ELSE cpu0

\* ----------------------------------------------------- SYS_PERM of PUT, GET
\* the loop body of do_put (176-180) and do_get (266-270); w is what
\* pmap_walk returned
perm_pte(w, nom_perm) ==
    IF w.pte = NULL THEN Fail(w.m, "assert")
    ELSE IF nom_perm # 0
    THEN Store(w.m, w.pte, BitOr(Deref(w.m, w.pte), nom_perm))
    ELSE Store(w.m, w.pte, PGADDR(Deref(w.m, w.pte)))

RECURSIVE perm_loop(_, _, _, _, _)
perm_loop(m, pdir, a, top, nom_perm) ==
    IF ~Ok(m) \/ a >= top THEN m
    ELSE perm_loop(perm_pte(pmap_walk(m, pdir, a, TRUE), nom_perm),
                   pdir, a + 1, top, nom_perm)

\* if (flags & SYS_PERM) of do_put (168-182) and do_get (257-272); flags:
\* the SYS_RW bits of the command
sys_perm(m, pdir, dva, size, flags) ==
    perm_loop(m, pdir, dva, dva + size,
              IF Has(flags, SYS_READ) THEN BitOr(flags, BitOr(PTE_P, PTE_U))
              ELSE flags)

\* ------------------------------------------------------------------ traps
\* A trap frame is a record: trapno, err, eip, cs (the low two bits of the
\* saved code selector), eax (the system call command), fva (for a page
\* fault the page of CR2, counted like every va) and pd (the directory of
\* the current process).  What trap() and the functions it calls do to the
\* world outside of the page tables is a sequence of steps, the names of
\* the functions called in order; the last one does not return.
systrap(utf, trapno, err) == [utf EXCEPT !.trapno = trapno, !.err = err]

\* sysrecover reflecting the frame of the trap in the kernel
sysrecover_ktf(m, cpu0, ktf) ==
    [m |-> m,
     cpu |-> [cpu0 EXCEPT !.recover = "NULL"],
     tf |-> ktf,
     steps |-> <<"recover", "proc_ret0">>]

\* sysrecover(ktf, recoverdata): lines 51-53, then proc_ret(utf, 0)
sysrecover(m, cpu0, ktf) ==
    [m |-> m,
     cpu |-> [cpu0 EXCEPT !.recover = "NULL"],
     tf |-> systrap(cpu0.recoverdata, ktf.trapno, ktf.err),
     steps |-> <<"recover", "proc_ret0">>]

\* trap_check_recover returning the vector in the frame's eax
trap_check_recover_eax(m, cpu0, tf) ==
    [m |-> m,
     cpu |-> cpu0,
     tf |-> [tf EXCEPT !.eip = IF "reip" \in DOMAIN cpu0.recoverdata
                               THEN cpu0.recoverdata.reip
                               ELSE cpu0.recoverdata.edi,
                       !.eax = tf.trapno],
     steps |-> <<"recover", "trap_return">>]

\* trap_check_recover(tf, recoverdata): lines 300-303.  recoverdata is
\* read as a trap_check_args; when it is the frame that usercopy left
\* there, reip and trapno are the frame's first two words, edi and esi.
trap_check_recover(m, cpu0, tf) ==
    IF "reip" \in DOMAIN cpu0.recoverdata
    THEN [m |-> m,
          cpu |-> [cpu0 EXCEPT !.recoverdata.trapno = tf.trapno],
          tf |-> [tf EXCEPT !.eip = cpu0.recoverdata.reip],
          steps |-> <<"recover", "trap_return">>]
    ELSE [m |-> m,
          cpu |-> [cpu0 EXCEPT !.recoverdata.esi = tf.trapno],
          tf |-> [tf EXCEPT !.eip = cpu0.recoverdata.edi],
          steps |-> <<"recover", "trap_return">>]

\* syscall(tf): the handler of the command type, or nothing (lines 293-303)
syscall(tf) ==
    IF tf.eax % (SYS_TYPE + 1) = SYS_CPUTS THEN <<"syscall", "do_cputs">>
    ELSE IF tf.eax % (SYS_TYPE + 1) = SYS_PUT THEN <<"syscall", "do_put">>
    ELSE IF tf.eax % (SYS_TYPE + 1) = SYS_GET THEN <<"syscall", "do_get">>
    ELSE IF tf.eax % (SYS_TYPE + 1) = SYS_RET THEN <<"syscall", "do_ret">>
    ELSE <<"syscall">>

\* trap() from line 276 on: the trap was nobody's
trap_unhandled(tf, athome) ==
    IF tf.cs # 0
    THEN (IF athome THEN <<>> ELSE <<"net_migrate">>) \o <<"proc_ret-1">>
    ELSE <<"trap_print", "panic">>

\* trap() from line 248 on, with no recovery hook: the steps
trap_route(tf, athome) ==
    IF tf.trapno = T_IRQ0 + e100_irq
    THEN <<"lapic_eoi", "e100_intr", "trap_return">>
    ELSE IF tf.trapno = T_SYSCALL
    THEN IF Len(syscall(tf)) > 1 THEN syscall(tf)
         ELSE syscall(tf) \o trap_unhandled(tf, athome)
    ELSE IF tf.trapno = T_LTIMER
    THEN <<"lapic_eoi", "net_tick">>
             \o (IF tf.cs # 0 THEN <<"proc_yield">> ELSE <<"trap_return">>)
    ELSE IF tf.trapno = T_IRQ0 + IRQ_SPURIOUS THEN <<"trap_return">>
    ELSE IF tf.trapno = T_IRQ0 + IRQ_KBD
    THEN <<"lapic_eoi", "kbd_intr", "trap_return">>
    ELSE IF tf.trapno = T_IRQ0 + IRQ_SERIAL
    THEN <<"lapic_eoi", "serial_intr", "trap_return">>
    ELSE trap_unhandled(tf, athome)

\* routed holding on to cons_lock on the way to panic
routed_locked(m, cpu0, tf, steps) ==
    [m |-> IF steps[Len(steps)] = "panic" THEN Fail(m, "panic") ELSE m,
     cpu |-> cpu0, tf |-> tf, steps |-> steps]

\* the trap took the steps of trap_route; on the way to panic cons_lock is
\* released if this CPU holds it (lines 287-288), and panic stops the kernel
routed(m, cpu0, tf, steps) ==
    IF steps[Len(steps)] = "panic"
    THEN [m |-> Fail(m, "panic"),
          cpu |-> [cpu0 EXCEPT !.cons_lock = FALSE],
          tf |-> tf,
          steps |-> SubSeq(steps, 1, Len(steps) - 2)
                        \o (IF cpu0.cons_lock THEN <<"spinlock_release">>
                            ELSE <<>>)
                        \o <<"trap_print", "panic">>]
    ELSE [m |-> m, cpu |-> cpu0, tf |-> tf, steps |-> steps]

\* trap_hooked calling the hook only for traps that no other branch takes
trap_hooked_late(m, cpu0, tf, athome) ==
    IF cpu0.recover = "sysrecover"
       /\ trap_route(tf, athome) = trap_unhandled(tf, athome)
    THEN sysrecover(m, cpu0, tf)
    ELSE IF cpu0.recover = "trap_check_recover"
            /\ trap_route(tf, athome) = trap_unhandled(tf, athome)
    THEN trap_check_recover(m, cpu0, tf)
    ELSE routed(m, cpu0, tf, trap_route(tf, athome))

\* trap() from line 239 on: the recovery hook, if set, takes the trap
trap_hooked(m, cpu0, tf, athome) ==
    IF cpu0.recover = "sysrecover" THEN sysrecover(m, cpu0, tf)
    ELSE IF cpu0.recover = "trap_check_recover"
    THEN trap_check_recover(m, cpu0, tf)
    ELSE routed(m, cpu0, tf, trap_route(tf, athome))

\* r with the call of pmap_pagefault put before its steps
after_pagefault(r) == [r EXCEPT !.steps = <<"pmap_pagefault">> \o @]

\* trap() after pmap_pagefault came to pf: the kernel was lost in it, or it
\* resolved the fault and left through trap_return, or it returned (lines
\* 234-236)
trap_pagefault(pf, cpu0, tf, athome) ==
    IF ~Ok(pf.m)
    THEN [m |-> pf.m, cpu |-> cpu0, tf |-> tf, steps |-> <<"pmap_pagefault">>]
    ELSE IF pf.resolved
    THEN [m |-> pf.m, cpu |-> cpu0, tf |-> tf,
          steps |-> <<"pmap_pagefault", "trap_return">>]
    ELSE after_pagefault(trap_hooked(pf.m, cpu0, tf, athome))

\* trap(tf); athome: the current process is on its home node
trap(m, cpu0, tf, athome, nullread) ==
    IF tf.trapno = T_PGFLT
    THEN trap_pagefault(pmap_pagefault(m, tf.pd, tf.fva, tf.eip = HackEip, nullread),
                        IF tf.fva \in VPages
                        THEN pmap_inval(cpu0, tf.pd, tf.fva, 1)
                        ELSE cpu0,
                        tf, athome)
    ELSE trap_hooked(m, cpu0, tf, athome)

\* --------------------------------------------------------------- usercopy
\* checkva's test on 32-bit unsigned values (line 67): TRUE when the range is
\* refused and systrap called
checkva_wrapping(uva, size) ==
    uva < VM_USERLO_ADDR \/ uva >= VM_USERHI_ADDR
        \/ (uva + size) % Word32 > VM_USERHI_ADDR

checkva(uva, size) ==
    uva < VM_USERLO_ADDR \/ uva >= VM_USERHI_ADDR
        \/ size > (VM_USERHI_ADDR - uva) % Word32

\* The page of the model's window that holds the user address a.  The
\* window of the model is the two ends of the real one: the pages at
\* VM_USERLO count up from 0, the pages below VM_USERHI count down from
\* VM_USERHI - 1.
UvaPage(a) ==
    IF a < VM_USERLO_ADDR + VM_USERHI * PageWords
    THEN (a - VM_USERLO_ADDR) \div PageWords
    ELSE VM_USERHI - 1 - ((VM_USERHI_ADDR - 1 - a) \div PageWords)

\* What the MMU does with an access of kernel code (CR0.WP set): PDE and
\* PTE present, and writable for a store
KernCanAccess(m, pdir, va, write) ==
    LET pde == m.pd[pdir][PDX(va)] IN
    /\ Has(pde, PTE_P) /\ (write => Has(pde, PTE_W))
    /\ LET pte == m.mem[mem_phys2pi(PGADDR(pde))][PTX(va)]
       IN  Has(pte, PTE_P) /\ (write => Has(pte, PTE_W))

\* the frame the processor pushes for a page fault of memmove in usercopy
CopyFault(m, pdir, va, write) ==
    [trapno |-> T_PGFLT,
     err |-> (IF Has(PteAt(m, pdir, va), PTE_P) THEN 1 ELSE 0)
                 + (IF write THEN 2 ELSE 0),
     eip |-> KernEip, cs |-> 0, eax |-> 0, fva |-> va, pd |-> pdir]

\* memmove of lines 86-90, a page at a time from page va to below page top,
\* and line 92; s.m, s.cpu: machine and CPU; s.tf: the user's frame;
\* s.steps: the steps so far; s.copied: pages copied; temp: line 81
RECURSIVE usercopy_pages(_, _, _, _, _, _, _)
RECURSIVE usercopy_trapped(_, _, _, _, _, _, _, _)
usercopy_pages(s, pdir, copyout, va, top, temp, nullread) ==
    IF va >= top
    THEN [s EXCEPT !.cpu.recover = temp, !.steps = @ \o <<"return">>]
    ELSE IF KernCanAccess(s.m, pdir, va, copyout)
    THEN usercopy_pages([s EXCEPT !.m = IF copyout
                                        THEN DoStore(s.m, pdir, va, 0, KernData)
                                        ELSE s.m,
                                  !.copied = @ + 1],
                        pdir, copyout, va + 1, top, temp, nullread)
    ELSE usercopy_trapped(trap(s.m, s.cpu, CopyFault(s.m, pdir, va, copyout),
                               TRUE, nullread),
                          s, pdir, copyout, va, top, temp, nullread)

\* the trap of the copy was handled with r: trap_return resumes the copy
\* at the faulting instruction, anything else leaves the copy for good
usercopy_trapped(r, s, pdir, copyout, va, top, temp, nullread) ==
    IF Ok(r.m) /\ r.steps = <<"pmap_pagefault", "trap_return">>
    THEN usercopy_pages([s EXCEPT !.m = r.m, !.steps = @ \o r.steps],
                        pdir, copyout, va, top, temp, nullread)
    ELSE [m |-> r.m, cpu |-> r.cpu, tf |-> r.tf, steps |-> s.steps \o r.steps,
          copied |-> s.copied, ktf |-> CopyFault(s.m, pdir, va, copyout)]

\* usercopy(utf, copyout, kva, uva, size), lines 78-92
usercopy(m, cpu0, utf, copyout, uva, size, nullread) ==
    IF checkva(uva, size)
    THEN [m |-> m, cpu |-> cpu0, tf |-> systrap(utf, T_PGFLT, 0),
          steps |-> <<"proc_ret0">>, copied |-> 0]
    ELSE usercopy_pages([m |-> m,
                         cpu |-> [cpu0 EXCEPT !.recover = "sysrecover",
                                              !.recoverdata = utf],
                         tf |-> utf, steps |-> <<>>, copied |-> 0],
                        utf.pd, copyout, UvaPage(uva),
                        IF size = 0 THEN UvaPage(uva)
                        ELSE UvaPage((uva + size - 1) % Word32) + 1,
                        cpu0.recover, nullread)

\* ------------------------------------------------------------------ state
\* refcount, freelist, mem, pdir, fault: the machine (see above)
\* owned: the frames whose pageinfo pointer the kernel code calling the pmap
\*        functions holds (pi0..pi3 of pmap_check): taken with mem_alloc and
\*        not back on the free list
\* pc, ctx: the pmap function in progress ("idle": none) and its locals
\* last:  the operation that completed last: its arguments, its result and
\*        the machine it started from
\* nops:  operations started so far
\* cpu:   the recovery hook of the CPU and its argument (cpu_cur()->recover,
\*        cpu_cur()->recoverdata)
VARIABLES refcount, freelist, mem, pdir, fault, owned, pc, ctx, last, nops, cpu
vars == <<refcount, freelist, mem, pdir, fault, owned, pc, ctx, last, nops, cpu>>

M == [rc |-> refcount, fl |-> freelist, mem |-> mem, pd |-> pdir, fault |-> fault]

SeqSet(q) == {q[i] : i \in 1 .. Len(q)}

Commit(m2) ==
    /\ refcount' = m2.rc
    /\ freelist' = m2.fl
    /\ mem' = m2.mem
    /\ pdir' = m2.pd
    /\ fault' = m2.fault
    /\ owned' = owned \ SeqSet(m2.fl)

Ready == pc = "idle" /\ fault = "none" /\ nops < MaxOps

NoCtx == [op |-> "none"]

\* the CPU with the process running: no recovery hook set, cons_lock and the
\* lock of the process (p->lock, plock) not held by it, no translation of the user window in its TLB, the directory of the
\* process installed
NoHook ==
    [recover |-> "NULL", recoverdata |-> [data |-> "NULL"], cons_lock |-> FALSE,
     tlb |-> {}, proc |-> CurDir, cr3 |-> CurDir, plock |-> FALSE]

\* the frames mem_alloc manages come out of boot with arbitrary contents:
\* frame f holds the word f everywhere; pmap_zero holds zeros
RECURSIVE BootMem(_)
BootMem(f) ==
    LET page == f :> Filled(0, NPTENTRIES - 1, IF f \in UserFrames THEN f ELSE 0)
    IN  IF f >= NFrames + 1 THEN page ELSE page @@ BootMem(f + 1)

\* the free list holding the frames a..b, lowest first
RECURSIVE FreeFrom(_, _)
FreeFrom(a, b) == IF a > b THEN <<>> ELSE <<a>> \o FreeFrom(a + 1, b)

\* the PDE that pmap_init gives index x outside the user window (line 74):
\* the 4MB page at the address of the index, x counted from PDX(VM_USERLO)
KernPDE(x) ==
    (PDXLO + x) * PTSIZE * PAGESIZE + PTE_P + PTE_W + PTE_PS + PTE_G

\* the boot directory as pmap_init leaves it (lines 68-76): the user PDEs
\* and the kernel PDE on either side of them
pmap_bootpdir ==
    (-1 :> KernPDE(-1)) @@ Filled(0, UserPDEs - 1, PTE_ZERO)
        @@ (UserPDEs :> KernPDE(UserPDEs))

\* After boot, with the first k frames of the free list taken by the caller
\* with mem_alloc (pmap_check, lines 639-642): every directory is a copy of
\* the boot directory, its user PDEs all PTE_ZERO.
Boot(k) ==
    [rc |-> Filled(0, NFrames + 1, 0),
     fl |-> FreeFrom(k + 2, NFrames + 1),
     mem |-> BootMem(0),
     pd |-> [p |-> pmap_bootpdir, c |-> pmap_bootpdir, r |-> pmap_bootpdir],
     fault |-> "none"]

Start(m, own) ==
    /\ refcount = m.rc
    /\ freelist = m.fl
    /\ mem = m.mem
    /\ pdir = m.pd
    /\ fault = m.fault
    /\ owned = own
    /\ pc = "idle"
    /\ ctx = NoCtx
    /\ last = [op |-> "init"]
    /\ nops = 0
    /\ cpu = NoHook

Init == \E k \in 0 .. NFrames : Start(Boot(k), 2 .. (k + 1))

\* ---------------------------------------------------------------- actions
MemAlloc ==
    /\ Ready
    /\ LET a == mem_alloc(M) IN
       /\ a.pi # NULLPI
       /\ refcount' = a.m.rc /\ freelist' = a.m.fl /\ mem' = a.m.mem
       /\ pdir' = a.m.pd /\ fault' = a.m.fault
       /\ owned' = owned \cup {a.pi}
       /\ last' = [op |-> "alloc", pi |-> a.pi, pre |-> M]
    /\ nops' = nops + 1
    /\ UNCHANGED <<pc, ctx, cpu>>

MemFree(pi) ==
    /\ Ready
    /\ pi \in owned /\ refcount[pi] = 0
    /\ Commit(mem_free(M, pi))
    /\ last' = [op |-> "free", pi |-> pi, pre |-> M]
    /\ nops' = nops + 1
    /\ UNCHANGED <<pc, ctx, cpu>>

\* pmap_walk called on its own (pmap_check, lines 685-695 and 801-818)
Walk(pd, va, writing) ==
    /\ Ready
    /\ \E r \in {pmap_walk(M, pd, va, writing)} :
       /\ Commit(r.m)
       /\ last' = [op |-> "walk", pd |-> pd, va |-> va, writing |-> writing,
                   pte |-> r.pte, pre |-> M]
    /\ nops' = nops + 1
    /\ UNCHANGED <<pc, ctx, cpu>>

\* pmap_insert, first half: pmap_walk and mem_incref
InsertBegin(pd, pi, va, perm) ==
    /\ Ready
    /\ pi \in owned
    /\ \E r \in {pmap_insert_ref(pmap_walk(M, pd, va, TRUE), pd, pi, va)} :
       \E rec \in {[op |-> "insert", pd |-> pd, pi |-> pi, va |-> va,
                    perm |-> perm, pte |-> r.pte, pre |-> M]} :
       /\ Commit(r.m)
       /\ IF r.pte = NULL \/ ~Ok(r.m)
          THEN /\ pc' = "idle" /\ ctx' = NoCtx
               /\ last' = rec
          ELSE /\ pc' = "insert"
               /\ ctx' = rec
               /\ last' = last
    /\ nops' = nops + 1
    /\ UNCHANGED cpu

\* pmap_insert, second half: pmap_remove of the old mapping, the new PTE
InsertEnd ==
    /\ pc = "insert" /\ fault = "none"
    /\ Commit(pmap_insert_map(M, ctx.pd, ctx.pi, ctx.va, ctx.perm, ctx.pte))
    /\ pc' = "idle" /\ ctx' = NoCtx
    /\ last' = ctx
    /\ cpu' = IF Deref(M, ctx.pte) # PTE_ZERO
              THEN pmap_inval(cpu, ctx.pd, ctx.va, 1)
              ELSE cpu
    /\ UNCHANGED nops

\* undo: this pmap_remove takes away the one page that the pmap_insert just
\* before it mapped (undo.rc: the frame's refcount before that pmap_insert,
\* undo.mapped: the slot mapped that frame already before the pmap_insert)
Remove(pd, va, size) ==
    /\ Ready
    /\ Commit(pmap_remove(M, pd, va, size))
    /\ last' = [op |-> "remove", pd |-> pd, va |-> va, size |-> size, pre |-> M,
                undo |-> IF last.op = "insert" /\ last.pte # NULL /\ last.pd = pd
                            /\ last.va = va /\ size = 1
                         THEN [pi |-> last.pi, rc |-> last.pre.rc[last.pi],
                               mapped |-> /\ last.pre.pd[pd][PDX(va)] # PTE_ZERO
                                          /\ PGADDR(PteAt(last.pre, pd, va))
                                                 = mem_pi2phys(last.pi)]
                         ELSE [pi |-> NULLPI, rc |-> 0, mapped |-> FALSE]]
    /\ nops' = nops + 1
    /\ cpu' = pmap_inval(cpu, pd, va, size)
    /\ UNCHANGED <<pc, ctx>>

\* pmap_remove statement by statement.  Its asserts and pmap_inval (lines
\* 267-274); ctx.va is the loop variable, ctx.phase the loop that was
\* running, ctx.pend the store that the statement after mem_decref will do
RemoveBegin(pd, va, size) ==
    /\ Ready
    /\ IF va >= 0 /\ va < VM_USERHI /\ size <= VM_USERHI - va
       THEN /\ pc' = "remove"
            /\ ctx' = [op |-> "remove", pd |-> pd, va |-> va, top |-> va + size,
                       phase |-> "head", pend |-> "none", pte |-> NULL,
                       va0 |-> va, size |-> size, pre |-> M]
            /\ UNCHANGED <<refcount, freelist, mem, pdir, fault>>
       ELSE /\ Commit(Fail(M, "assert"))
            /\ UNCHANGED <<pc, ctx>>
    /\ last' = [op |-> "remove_begin", pd |-> pd, va |-> va, size |-> size,
                pre |-> M]
    /\ cpu' = pmap_inval(cpu, pd, va, size)
    /\ nops' = nops + 1
    /\ UNCHANGED owned

\* the loop of pmap_remove that runs at va when the loops before it are
\* over: head (278), bulk (294, 295), tail (312), or none
remove_phase(phase, va, toppage) ==
    IF phase = "head" /\ va < ROUNDUP(va, PTSIZE) /\ va < toppage THEN "head"
    ELSE IF phase \in {"head", "bulk"} /\ va + PTSIZE <= ROUNDDOWN(toppage, PTSIZE)
            /\ toppage - va >= PTSIZE
    THEN "bulk"
    ELSE IF va < toppage THEN "tail"
    ELSE "done"

\* one turn of a loop up to and with its mem_decref (lines 280-287, 296-299,
\* 313-319); a slot with nothing to release is passed over
RemoveDecref ==
    /\ pc = "remove" /\ fault = "none" /\ ctx.pend = "none"
    /\ \E ph \in {remove_phase(ctx.phase, ctx.va, ctx.top)} :
       IF ph = "done"
       THEN /\ pc' = "idle" /\ ctx' = NoCtx
            /\ last' = [op |-> "remove_end", pd |-> ctx.pd, va |-> ctx.va0,
                        size |-> ctx.size, pre |-> ctx.pre]
            /\ UNCHANGED <<refcount, freelist, mem, pdir, fault>>
       ELSE IF ph = "bulk"
       THEN IF pdir[ctx.pd][PDX(ctx.va)] # PTE_ZERO
            THEN /\ Commit(mem_decref(M, mem_phys2pi(PGADDR(pdir[ctx.pd][PDX(ctx.va)])),
                                      "pmap_freeptab"))
                 /\ ctx' = [ctx EXCEPT !.phase = ph, !.pend = "pde"]
                 /\ UNCHANGED <<pc, last>>
            ELSE /\ ctx' = [ctx EXCEPT !.phase = ph, !.va = @ + PTSIZE]
                 /\ UNCHANGED <<refcount, freelist, mem, pdir, fault, pc, last>>
       ELSE IF pdir[ctx.pd][PDX(ctx.va)] # PTE_ZERO
               /\ PGADDR(PteAt(M, ctx.pd, ctx.va)) # PTE_ZERO
       THEN /\ Commit(mem_decref(M, mem_phys2pi(PGADDR(PteAt(M, ctx.pd, ctx.va))),
                                 "mem_free"))
            /\ ctx' = [ctx EXCEPT !.phase = ph, !.pend = "pte",
                                  !.pte = pmap_walk(M, ctx.pd, ctx.va, TRUE).pte]
            /\ UNCHANGED <<pc, last>>
       ELSE /\ ctx' = [ctx EXCEPT !.phase = ph, !.va = @ + 1]
            /\ UNCHANGED <<refcount, freelist, mem, pdir, fault, pc, last>>
    /\ UNCHANGED <<owned, nops, cpu>>

\* the statement after mem_decref: *pte = PTE_ZERO (288, 320) or
\* *pdentry = PTE_ZERO (300), and the step of the loop variable
RemoveStore ==
    /\ pc = "remove" /\ fault = "none" /\ ctx.pend # "none"
    /\ IF ctx.pend = "pde"
       THEN /\ Commit([M EXCEPT !.pd[ctx.pd][PDX(ctx.va)] = PTE_ZERO])
            /\ ctx' = [ctx EXCEPT !.pend = "none", !.va = @ + PTSIZE]
       ELSE /\ Commit(Store(M, ctx.pte, PTE_ZERO))
            /\ ctx' = [ctx EXCEPT !.pend = "none", !.pte = NULL, !.va = @ + 1]
    /\ UNCHANGED <<owned, nops, cpu, pc, last>>

SetPerm(pd, va, size, perm) ==
    /\ Ready
    /\ Commit(pmap_setperm(M, pd, va, size, perm))
    /\ last' = [op |-> "setperm", pd |-> pd, va |-> va, size |-> size,
                perm |-> perm, pre |-> M]
    /\ nops' = nops + 1
    /\ UNCHANGED <<pc, ctx, cpu>>

Copy(spd, sva, dpd, dva, size) ==
    /\ Ready
    /\ \E r \in {pmap_copy(M, spd, sva, dpd, dva, size)} :
       /\ Commit(r.m)
       /\ last' = [op |-> "copy", spd |-> spd, sva |-> sva, dpd |-> dpd,
                   dva |-> dva, size |-> size, ret |-> r.ret, pre |-> M]
    /\ nops' = nops + 1
    /\ cpu' = pmap_inval(pmap_inval(cpu, spd, sva, size), dpd, dva, size)
    /\ UNCHANGED <<pc, ctx>>

\* a store of user code running on directory pd
UserWrite(pd, va, idx, val) ==
    /\ Ready
    /\ \E nullread \in BOOLEAN :
       \E r \in {user_write(M, pd, va, idx, val, nullread)} :
       /\ Commit(r.m)
       /\ last' = [op |-> "write", pd |-> pd, va |-> va, idx |-> idx, val |-> val,
                   faulted |-> r.faulted, done |-> r.done, pre |-> M]
       /\ cpu' = IF r.faulted
                 THEN pmap_inval(proc_switch(cpu, pd), pd, va, 1)
                 ELSE proc_switch(cpu, pd)
    /\ nops' = nops + 1
    /\ UNCHANGED <<pc, ctx>>

\* pmap_merge up to its loop: the asserts
MergeBegin(rpd, spd, sva, dpd, dva, size) ==
    /\ Ready
    /\ IF /\ sva % PTSIZE = 0 /\ dva % PTSIZE = 0 /\ size % PTSIZE = 0
          /\ sva >= 0 /\ sva < VM_USERHI /\ dva >= 0 /\ dva < VM_USERHI
          /\ size <= VM_USERHI - sva /\ size <= VM_USERHI - dva
       THEN /\ pc' = "merge"
            /\ ctx' = [op |-> "merge", rpd |-> rpd, spd |-> spd, sva |-> sva,
                       dpd |-> dpd, dva |-> dva, size |-> size, i |-> 0]
            /\ UNCHANGED <<refcount, freelist, mem, pdir, fault, owned, last>>
       ELSE /\ Commit(Fail(M, "assert"))
            /\ last' = [op |-> "merge", rpd |-> rpd, spd |-> spd, sva |-> sva,
                        dpd |-> dpd, dva |-> dva, size |-> size, pre |-> M]
            /\ UNCHANGED <<pc, ctx>>
    /\ nops' = nops + 1
    /\ cpu' = pmap_inval(pmap_inval(cpu, spd, sva, size), dpd, dva, size)

\* one turn of pmap_merge's loop: a page table that source and reference
\* share is skipped whole, otherwise one 4KB slot is merged
MergeStep ==
    /\ pc = "merge" /\ fault = "none"
    /\ \E r \in {IF ctx.i % PTSIZE = 0
                     /\ pdir[ctx.spd][PDX(ctx.sva + ctx.i)]
                            = pdir[ctx.rpd][PDX(ctx.sva + ctx.i)]
                  THEN [m |-> M, kind |-> "skip", conflict |-> FALSE]
                  ELSE merge_slot(M, ctx.rpd, ctx.spd, ctx.sva, ctx.dpd, ctx.dva,
                                  ctx.i)} :
       LET i2 == IF r.kind = "skip" THEN ctx.i + PTSIZE ELSE ctx.i + 1 IN
       /\ Commit(r.m)
       /\ last' = [op |-> "merge_slot", rpd |-> ctx.rpd, spd |-> ctx.spd,
                   dpd |-> ctx.dpd, sva |-> ctx.sva + ctx.i,
                   dva |-> ctx.dva + ctx.i,
                   kind |-> r.kind, conflict |-> r.conflict, pre |-> M]
       /\ IF i2 >= ctx.size
          THEN pc' = "idle" /\ ctx' = NoCtx
          ELSE pc' = "merge" /\ ctx' = [ctx EXCEPT !.i = i2]
    /\ UNCHANGED <<nops, cpu>>

\* PUT (pd the child's directory) or GET (pd the caller's) with SYS_PERM
SysPerm(pd, dva, size, flags) ==
    /\ Ready
    /\ Commit(sys_perm(M, pd, dva, size, flags))
    /\ last' = [op |-> "perm", pd |-> pd, va |-> dva, size |-> size,
                flags |-> flags, pre |-> M]
    /\ nops' = nops + 1
    /\ UNCHANGED <<pc, ctx, cpu>>

\* pmap_inval(pd, va, size) called on its own
Inval(pd, va, size) ==
    /\ Ready
    /\ cpu' = pmap_inval(cpu, pd, va, size)
    /\ last' = [op |-> "inval", pd |-> pd, va |-> va, size |-> size,
                tlbop |-> inval_op(cpu, pd, va, size), hook |-> cpu, pre |-> M]
    /\ nops' = nops + 1
    /\ UNCHANGED <<refcount, freelist, mem, pdir, fault, owned, pc, ctx>>

\* the process touches page va in user mode and the TLB, which has no entry
\* for it, caches the translation that the page tables give
TlbFill(va) ==
    /\ pc = "idle" /\ fault = "none"
    /\ \A e \in cpu.tlb : e.va # va
    /\ Has(pdir[cpu.cr3][PDX(va)], PTE_P)
    /\ Has(PteAt(M, cpu.cr3, va), PTE_P) /\ Has(PteAt(M, cpu.cr3, va), PTE_U)
    /\ cpu' = [cpu EXCEPT !.tlb = @ \cup {[va |-> va,
                                          pte |-> PteAt(M, cpu.cr3, va)]}]
    /\ last' = [op |-> "tlbfill", va |-> va]
    /\ UNCHANGED <<refcount, freelist, mem, pdir, fault, owned, pc, ctx, nops>>

\* a trap arrives with frame tf
Trap(tf, athome) ==
    /\ Ready
    /\ \E nullread \in BOOLEAN :
       \E r \in {trap(M, cpu, tf, athome, nullread)} :
       /\ Commit(r.m)
       /\ cpu' = r.cpu
       /\ last' = [op |-> "trap", tfin |-> tf, athome |-> athome, tf |-> r.tf,
                   steps |-> r.steps, hook |-> cpu, pre |-> M]
    /\ nops' = nops + 1
    /\ UNCHANGED <<pc, ctx>>

\* the frame of the INT 0x30 of a system call of the process of pd
SyscallFrame(pd, cmd) ==
    [trapno |-> T_SYSCALL, err |-> 0, eip |-> UserEip, cs |-> 3, eax |-> cmd,
     fva |-> 0, pd |-> pd, edi |-> 0, esi |-> 0]

\* a system call handler calls usercopy
UserCopy(pd, copyout, uva, size) ==
    /\ Ready
    /\ \E nullread \in BOOLEAN :
       \E r \in {usercopy(M, cpu, SyscallFrame(pd, SYS_CPUTS), copyout, uva, size,
                          nullread)} :
       /\ Commit(r.m)
       /\ cpu' = r.cpu
       /\ last' = [op |-> "usercopy", utf |-> SyscallFrame(pd, SYS_CPUTS),
                   copyout |-> copyout, uva |-> uva, size |-> size, r |-> r,
                   hook |-> cpu, pre |-> M]
    /\ nops' = nops + 1
    /\ UNCHANGED <<pc, ctx>>

\* spinlock_acquire(&p->lock) of do_put (line 131) and do_get (214)
proc_lock(cpu0) == [cpu0 EXCEPT !.plock = TRUE]

\* the system call going on with p->lock held
proc_unlock_kept(cpu0) == cpu0

\* spinlock_release(&p->lock) of do_put (148) and do_get (234)
proc_unlock(cpu0) == [cpu0 EXCEPT !.plock = FALSE]

\* do_put or do_get up to the lock taken; regs: the command has SYS_REGS
PutGetBegin(cmd, regs) ==
    /\ Ready
    /\ ~cpu.plock
    /\ cpu' = proc_lock(cpu)
    /\ pc' = "syslock"
    /\ ctx' = [op |-> "sys", cmd |-> cmd, regs |-> regs]
    /\ last' = [op |-> "sys_begin", cmd |-> cmd, regs |-> regs]
    /\ nops' = nops + 1
    /\ UNCHANGED <<refcount, freelist, mem, pdir, fault, owned>>

\* the check of the child's state under the lock: a child that has not
\* stopped makes the caller wait (proc_wait gives the lock back and the
\* system call is started again later); else the lock is released
ChildCheck(stopped) ==
    /\ pc = "syslock" /\ fault = "none"
    /\ cpu' = proc_unlock(cpu)
    /\ IF stopped /\ ctx.regs
       THEN /\ pc' = "sysregs"
            /\ UNCHANGED ctx
       ELSE /\ pc' = "idle"
            /\ ctx' = NoCtx
    /\ last' = [op |-> IF stopped THEN "sys_unlock" ELSE "proc_wait",
                cmd |-> ctx.cmd, regs |-> ctx.regs]
    /\ UNCHANGED <<refcount, freelist, mem, pdir, fault, owned, nops>>

\* if (flags & SYS_REGS) of do_put (150-151) and do_get (236-238)
SysRegs(uva, size) ==
    /\ pc = "sysregs" /\ fault = "none"
    /\ \E nullread \in BOOLEAN :
       \E r \in {usercopy(M, cpu, SyscallFrame("p", ctx.cmd), ctx.cmd = SYS_GET,
                          uva, size, nullread)} :
       /\ Commit(r.m)
       /\ cpu' = r.cpu
       /\ last' = [op |-> "usercopy", utf |-> SyscallFrame("p", ctx.cmd),
                   copyout |-> (ctx.cmd = SYS_GET), uva |-> uva, size |-> size,
                   r |-> r, hook |-> cpu, pre |-> M]
    /\ pc' = "idle" /\ ctx' = NoCtx
    /\ UNCHANGED nops

\* trap_check_kernel and trap_check_user up to the first trap of trap_check
\* (lines 314-315, 331-332 and 352), and from its last trap on (403, 316,
\* 333)
TrapCheckBegin(reip) ==
    /\ Ready
    /\ cpu.recover = "NULL"
    /\ cpu' = [cpu EXCEPT !.recover = "trap_check_recover",
                          !.recoverdata = [reip |-> reip, trapno |-> -1]]
    /\ last' = [op |-> "trap_check"]
    /\ nops' = nops + 1
    /\ UNCHANGED <<refcount, freelist, mem, pdir, fault, owned, pc, ctx>>

TrapCheckEnd ==
    /\ pc = "idle" /\ fault = "none"
    /\ cpu.recover = "trap_check_recover"
    /\ cpu' = [cpu EXCEPT !.recover = "NULL",
                          !.recoverdata = NoHook.recoverdata]
    /\ last' = [op |-> "trap_check_end"]
    /\ UNCHANGED <<refcount, freelist, mem, pdir, fault, owned, pc, ctx, nops>>

\* cputs takes cons_lock for the string it prints (cons.c 334-336) and gives
\* it back (342-343); a trap may come in between
ConsAcquire ==
    /\ pc = "idle" /\ fault = "none"
    /\ ~cpu.cons_lock
    /\ cpu' = [cpu EXCEPT !.cons_lock = TRUE]
    /\ last' = [op |-> "cputs"]
    /\ UNCHANGED <<refcount, freelist, mem, pdir, fault, owned, pc, ctx, nops>>

ConsRelease ==
    /\ pc = "idle" /\ fault = "none"
    /\ cpu.cons_lock
    /\ cpu' = [cpu EXCEPT !.cons_lock = FALSE]
    /\ last' = [op |-> "cputs_end"]
    /\ UNCHANGED <<refcount, freelist, mem, pdir, fault, owned, pc, ctx, nops>>

\* ------------------------------------------------------- argument menus
\* the addresses pmap_check works with: the first two pages of the window
\* and the first page of the second page table
InsertVas    == {0, 1, PTSIZE}
Perms        == {0, PTE_U}              \* perm arguments of pmap_check
NomPerms     == {SYS_READ, SYS_RW}      \* perm arguments of pmap_setperm
DataVals     == {7, 9}                  \* words user code stores
\* one page; a whole page table; a range across two page tables; the whole
\* window; the window but its first page
RemoveRanges == {<<0, 1>>, <<1, 1>>, <<0, PTSIZE>>, <<1, PTSIZE>>,
                 <<0, VM_USERHI>>, <<1, VM_USERHI - 1>>}

\* the first and the last word of a page
WordIdx == {0, NPTENTRIES - 1}

\* pmap_check's world: one directory, frames inserted and removed by hand
NextMap ==
    \/ MemAlloc
    \/ \E pi \in UserFrames : MemFree(pi)
    \/ \E pi \in UserFrames, va \in InsertVas, perm \in Perms :
           InsertBegin("p", pi, va, perm)
    \/ InsertEnd
    \/ \E r \in RemoveRanges : Remove("p", r[1], r[2])
    \/ \E va \in {0, 1}, perm \in NomPerms : SetPerm("p", va, 1, perm)
    \/ Copy("p", 0, "c", 0, VM_USERHI)
    \/ \E va \in InsertVas, writing \in BOOLEAN : Walk("p", va, writing)

SpecMap == Init /\ [][NextMap]_vars

\* A process that was given SYS_RW on its first page table (its pages map
\* pmap_zero, not present): what PUT with SYS_PERM leaves (do_put, 168-182,
\* here with pmap_setperm).
Granted == pmap_setperm(Boot(0), "p", 0, PTSIZE, SYS_RW)

InitCow == Start(Granted, {})

\* the process and a child made by copying: stores, copies to the child and
\* on to the child's snapshot, pages taken away
NextCow ==
    \/ \E pd \in {"p", "c"}, va \in {0, 1}, idx \in WordIdx, val \in DataVals :
           UserWrite(pd, va, idx, val)
    \/ Copy("p", 0, "c", 0, PTSIZE)
    \/ Copy("c", 0, "r", 0, PTSIZE)
    \/ Remove("c", 0, 1)

SpecCow == InitCow /\ [][NextCow]_vars

\* The process has forked a child and the child has taken its snapshot
\* (do_put: SYS_COPY, 159-162, then SYS_SNAP, 184-186); before that the
\* process has or has not stored into its first page.
Forked(stored) ==
    pmap_copy(pmap_copy(IF stored
                        THEN user_write(Granted, "p", 0, 0, 5, FALSE).m
                        ELSE Granted,
                        "p", 0, "c", 0, VM_USERHI).m,
              "c", 0, "r", 0, VM_USERHI).m

InitMerge == \E stored \in BOOLEAN : Start(Forked(stored), {})

\* child and parent store into their pages, the parent drops a page, the
\* parent merges the child's changes since the snapshot (do_get, 241-243)
NextMerge ==
    \/ \E pd \in {"p", "c"}, va \in {0, 1}, idx \in WordIdx, val \in DataVals :
           UserWrite(pd, va, idx, val)
    \/ Remove("p", 0, 1)
    \/ MergeBegin("r", "c", 0, "p", 0, PTSIZE)
    \/ MergeStep

SpecMerge == InitMerge /\ [][NextMerge]_vars

\* pmap_check's directory before its removes of large regions (lines
\* 760-784): the caller's frame pi0 inserted at the pages of vas, lowest
\* first, the page tables taken from the free list on the way
RECURSIVE Populated(_, _, _, _)
Populated(m, pi0, vas, va) ==
    IF va >= VM_USERHI THEN m
    ELSE Populated(IF va \in vas THEN pmap_insert(m, "p", pi0, va, 0) ELSE m,
                   pi0, vas, va + 1)

InitBulk == \E vas \in SUBSET VPages : Start(Populated(Boot(1), 2, vas, 0), {2})

\* every range pmap_remove accepts, and pi0 inserted again
NextBulk ==
    \/ \E va \in VPages, size \in 1 .. VM_USERHI :
           size <= VM_USERHI - va /\ Remove("p", va, size)
    \/ \E va \in VPages : InsertBegin("p", 2, va, 0)
    \/ InsertEnd

SpecBulk == InitBulk /\ [][NextBulk]_vars

\* the operations that share frames and nothing else: permissions granted,
\* stores, copies, merges and removes, from boot or from the forked process
InitShare == Start(Boot(0), {}) \/ InitCow \/ InitMerge

NextShare ==
    \/ NextCow
    \/ NextMerge
    \/ \E va \in {0, 1}, perm \in NomPerms : SetPerm("p", va, 1, perm)

SpecShare == InitShare /\ [][NextShare]_vars

\* the operations called with addresses at the two ends of the user window
\* and on either side of them
EdgeVas   == {-1, 0, VM_USERHI - 1, VM_USERHI}
EdgeSizes == {1, 2}
EdgePts   == {0, VM_USERHI - PTSIZE}
EdgePtSizes == {PTSIZE, 2 * PTSIZE}

InitKern == Start(Boot(1), {2}) \/ InitMerge

NextKern ==
    \/ \E pd \in {"p", "c"}, va \in EdgeVas : UserWrite(pd, va, 0, 7)
    \/ \E va \in EdgeVas, size \in EdgeSizes : SetPerm("p", va, size, SYS_RW)
    \/ \E va \in EdgeVas, size \in EdgeSizes : Remove("p", va, size)
    \/ Remove("p", 0, VM_USERHI)
    \/ \E va \in EdgeVas, writing \in BOOLEAN : Walk("p", va, writing)
    \/ \E va \in EdgeVas : InsertBegin("p", 2, va, 0)
    \/ InsertEnd
    \/ \E sva \in EdgePts, dva \in EdgePts, size \in EdgePtSizes :
           Copy("p", sva, "c", dva, size)
    \/ \E sva \in EdgePts, dva \in EdgePts, size \in EdgePtSizes :
           MergeBegin("r", "c", sva, "p", dva, size)
    \/ MergeStep

SpecKern == InitKern /\ [][NextKern]_vars

\* the frames of traps: exceptions, interrupts the kernel knows and one it
\* does not, system calls defined and undefined, page faults in the window
\* and outside of it, from user mode (cs 3) and from kernel mode (cs 0)
TrapFrames ==
    {[trapno |-> t, err |-> 0, eip |-> IF c = 0 THEN KernEip ELSE UserEip,
      cs |-> c, eax |-> 0, fva |-> 0, pd |-> "p"] :
        t \in {T_GPFLT, T_LTIMER, T_IRQ0 + IRQ_KBD, T_IRQ0 + IRQ_IDE},
        c \in {0, 3}}
    \cup {[trapno |-> T_SYSCALL, err |-> 0,
           eip |-> IF c = 0 THEN KernEip ELSE UserEip,
           cs |-> c, eax |-> a, fva |-> 0, pd |-> "p"] :
              a \in {SYS_GET, (SYS_TYPE + 1) + 7}, c \in {0, 3}}
    \cup {[trapno |-> T_PGFLT, err |-> 6, eip |-> e,
           cs |-> IF e = UserEip THEN 3 ELSE 0,
           eax |-> 0, fva |-> v, pd |-> "p"] :
              v \in {0, PTSIZE, VM_USERHI}, e \in {UserEip, KernEip, HackEip}}

\* user addresses at, inside and outside of the ends of the window, and
\* sizes: nothing, two words, a page, the window, the largest size_t
CopyUvas ==
    {VM_USERLO_ADDR - 1, VM_USERLO_ADDR, VM_USERLO_ADDR + 2 * PageWords - 1,
     VM_USERHI_ADDR - 1, VM_USERHI_ADDR}
CopySizes ==
    {0, 2, PageWords, VM_USERHI_ADDR - VM_USERLO_ADDR, Word32 - 1}

\* trap_check's after_... labels
ResumeEips == {ResumeEip, ResumeEip + 2}

InitTrap == InitCow \/ InitMerge

\* traps and system calls that copy, between stores of the process, during
\* the trap self-test and outside of it
NextTrap ==
    \/ \E tf \in TrapFrames, athome \in BOOLEAN : Trap(tf, athome)
    \/ \E copyout \in BOOLEAN, uva \in CopyUvas, size \in CopySizes :
           UserCopy("p", copyout, uva, size)
    \/ \E reip \in ResumeEips : TrapCheckBegin(reip)
    \/ TrapCheckEnd
    \/ ConsAcquire
    \/ ConsRelease
    \/ UserWrite("p", 0, 0, 7)

SpecTrap == InitTrap /\ [][NextTrap]_vars

\* the process stores and reads, and between that the kernel changes the
\* page tables under it with every operation that does so
InitTlb == InitCow \/ InitMerge

NextTlb ==
    \/ \E va \in {0, 1} : TlbFill(va)
    \/ \E pd \in {"p", "c"}, va \in {0, 1} : UserWrite(pd, va, 0, 7)
    \/ \E pd \in {"p", "c"}, flags \in {0} \cup NomPerms :
           SysPerm(pd, 0, 1, flags)
    \/ \E flags \in NomPerms : SetPerm("p", 1, 1, flags)
    \/ Remove("p", 0, 1)
    \/ MemAlloc
    \/ \E pi \in UserFrames : InsertBegin("p", pi, 0, PTE_U + PTE_W)
    \/ InsertEnd
    \/ Copy("p", 0, "c", 0, VM_USERHI)
    \/ MergeBegin("r", "c", 0, "p", 0, PTSIZE)
    \/ MergeStep

SpecTlb == InitTlb /\ [][NextTlb]_vars

\* pmap_inval while no process is current on the CPU (proc_cur() is NULL, as
\* in pmap_check at boot) and with the process running after its fork
InvalSizes == {1, 2, PTSIZE * 2}

InitInval ==
    /\ \E stored \in BOOLEAN :
          /\ refcount = Forked(stored).rc /\ freelist = Forked(stored).fl
          /\ mem = Forked(stored).mem /\ pdir = Forked(stored).pd
          /\ fault = Forked(stored).fault
    /\ owned = {} /\ pc = "idle" /\ ctx = NoCtx
    /\ last = [op |-> "init"] /\ nops = 0
    /\ \E p \in {"NULL", CurDir} : cpu = [NoHook EXCEPT !.proc = p]

NextInval ==
    \/ \E pd \in Dirs, va \in {0, 1}, size \in InvalSizes : Inval(pd, va, size)
    \/ \E va \in {0, 1} : TlbFill(va)
    \/ \E va \in {0, 1} : cpu.proc = CurDir /\ UserWrite("p", va, 0, 7)
    \/ Remove("p", 0, 1)

SpecInval == InitInval /\ [][NextInval]_vars

\* pmap_remove followed statement by statement, on the directory of
\* pmap_check and on the directories of the forked process
InitSteps == InitBulk \/ InitMerge

NextSteps ==
    \/ \E pd \in {"p", "c"}, r \in RemoveRanges : RemoveBegin(pd, r[1], r[2])
    \/ RemoveDecref
    \/ RemoveStore
    \/ \E va \in {0, 1} : UserWrite("p", va, 0, 7)

SpecSteps == InitSteps /\ [][NextSteps]_vars

\* the system calls that copy from or to user memory: CPUTS, and PUT and GET
\* with and without SYS_REGS, the child stopped or not
SysUvas  == {VM_USERLO_ADDR, VM_USERLO_ADDR + 2 * PageWords - 1, VM_USERHI_ADDR - 1}
SysSizes == {2, PageWords}

InitSys == InitCow \/ InitMerge

NextSys ==
    \/ \E cmd \in {SYS_PUT, SYS_GET}, regs \in BOOLEAN : PutGetBegin(cmd, regs)
    \/ \E stopped \in BOOLEAN : ChildCheck(stopped)
    \/ \E uva \in SysUvas, size \in SysSizes : SysRegs(uva, size)
    \/ \E uva \in SysUvas, size \in SysSizes : UserCopy("p", FALSE, uva, size)
    \/ UserWrite("p", 0, 0, 7)

SpecSys == InitSys /\ [][NextSys]_vars

\* everything together, from boot or from the forked process
InitAny == Init \/ InitCow \/ InitMerge

Next == NextMap \/ NextCow \/ NextMerge

Spec == InitAny /\ [][Next]_vars

\* ----------------------------------------------------------------- claims
\* the operation op has just returned, and the kernel runs on
Done(op) == pc = "idle" /\ last.op = op /\ fault = "none"

\* the pages of the range of the pmap_remove or pmap_setperm in rec
RangeOf(rec) == rec.va .. (rec.va + rec.size - 1)

\* how many PTE slots of pd among the pages vas map frame f
SlotRefs(m, pd, f, vas) ==
    Cardinality({va \in vas : /\ m.pd[pd][PDX(va)] # PTE_ZERO
                              /\ PGADDR(PteAt(m, pd, va)) = mem_pi2phys(f)})

\* the page table of va exists in rec.pd and its slot maps frame f
MapsFrame(m, pd, va, f) ==
    m.pd[pd][PDX(va)] # PTE_ZERO /\ PGADDR(PteAt(m, pd, va)) = mem_pi2phys(f)

\* the user PDEs that reference frame f, and the PTE slots of the page
\* tables of live directories that reference it
PdeRefs(f) ==
    {<<d, x>> \in Dirs \X PDIdx :
        pdir[d][x] # PTE_ZERO /\ PGADDR(pdir[d][x]) = mem_pi2phys(f)}
LiveTables ==
    {mem_phys2pi(PGADDR(pdir[d][x])) : <<d, x>> \in
        {y \in Dirs \X PDIdx : pdir[y[1]][y[2]] # PTE_ZERO}}
PteRefs(f) ==
    {<<t, i>> \in LiveTables \X PTIdx : PGADDR(mem[t][i]) = mem_pi2phys(f)}

\* C1: between operations every frame other than ZERO has a refcount equal
\* to the number of slots that reference it, PTE slots of live page tables
\* and user PDEs of live page directories.
C1_RefcountIsReferences ==
    (pc = "idle" /\ fault = "none")
        => \A f \in UserFrames :
               refcount[f] = Cardinality(PdeRefs(f)) + Cardinality(PteRefs(f))

\* the slot of the store in rec maps a frame copy-on-write that another
\* directory maps too, as pmap_copy leaves the two
CowShared(rec) ==
    LET pte == PteAt(rec.pre, rec.pd, rec.va) IN
    /\ rec.pre.pd[rec.pd][PDX(rec.va)] # PTE_ZERO
    /\ mem_phys2pi(PGADDR(pte)) \in UserFrames
    /\ ~Has(pte, PTE_W) /\ Has(pte, SYS_WRITE)
    /\ \E q \in Dirs \ {rec.pd} :
           MapsFrame(rec.pre, q, rec.va, mem_phys2pi(PGADDR(pte)))

\* C2: a store through one directory to a page that it shares copy-on-write
\* with another since a pmap_copy lands in a new frame that only the writing
\* directory maps; every other directory maps what it mapped, the original
\* frame keeps its contents, its refcount is one lower, and when the two
\* directories were the only sharers both frames end with refcount 1.
C2_CowIsolation ==
    (Done("write") /\ CowShared(last))
        => LET f == FrameAt(last.pre, last.pd, last.va)
               g == FrameAt(M, last.pd, last.va)
           IN  /\ last.faulted /\ last.done
               /\ g \in UserFrames \ {f}
               /\ mem[g] = [last.pre.mem[f] EXCEPT ![last.idx] = last.val]
               /\ mem[f] = last.pre.mem[f]
               /\ \A q \in Dirs \ {last.pd}, u \in VPages :
                      /\ PteAt(M, q, u) = PteAt(last.pre, q, u)
                      /\ ~MapsFrame(M, q, u, g)
               /\ refcount[g] = 1
               /\ refcount[f] = last.pre.rc[f] - 1
               /\ (last.pre.rc[f] = 2 => refcount[f] = 1)

\* two sharers, and the store changes the word
C2_Witness ==
    /\ Done("write") /\ CowShared(last)
    /\ last.pre.rc[FrameAt(last.pre, last.pd, last.va)] = 2
    /\ refcount[FrameAt(last.pre, last.pd, last.va)] = 1
    /\ last.pre.mem[FrameAt(last.pre, last.pd, last.va)][last.idx] # last.val
    /\ mem[FrameAt(M, last.pd, last.va)][last.idx] = last.val

\* pmap_merge has just done the slot in last, of the given kind
Merged(kind) ==
    last.op = "merge_slot" /\ pc \in {"idle", "merge"} /\ last.kind = kind

\* the reference, source and destination pages of the slot in rec as they
\* were before pmap_merge came to the slot
RefPage(rec) == rec.pre.mem[mem_phys2pi(PGADDR(PteAt(rec.pre, rec.rpd, rec.sva)))]
SrcPage(rec) == rec.pre.mem[mem_phys2pi(PGADDR(PteAt(rec.pre, rec.spd, rec.sva)))]
DstPage(rec) == rec.pre.mem[mem_phys2pi(PGADDR(PteAt(rec.pre, rec.dpd, rec.dva)))]

\* at word i reference, source and destination are three distinct values
ConflictAt(rec, i) ==
    /\ RefPage(rec)[i] # SrcPage(rec)[i]
    /\ RefPage(rec)[i] # DstPage(rec)[i]
    /\ SrcPage(rec)[i] # DstPage(rec)[i]

\* C3: after pmap_mergepage of a page with no conflicting word, every word
\* of the destination page is the source's word where the source differs
\* from the reference and the destination equals it, and the destination's
\* previous word everywhere else.
C3_MergeWords ==
    (Merged("mergepage") /\ fault = "none"
     /\ \A i \in PTIdx : ~ConflictAt(last, i))
        => LET now == mem[mem_phys2pi(PGADDR(PteAt(M, last.dpd, last.dva)))]
           IN  \A i \in PTIdx :
                   now[i] = IF /\ SrcPage(last)[i] # RefPage(last)[i]
                               /\ DstPage(last)[i] = RefPage(last)[i]
                            THEN SrcPage(last)[i]
                            ELSE DstPage(last)[i]

\* source and destination changed different words, both changes are there
C3_Witness ==
    /\ Merged("mergepage") /\ fault = "none"
    /\ \A i \in PTIdx : ~ConflictAt(last, i)
    /\ \E i, j \in PTIdx :
           /\ SrcPage(last)[i] # RefPage(last)[i] /\ DstPage(last)[i] = RefPage(last)[i]
           /\ DstPage(last)[j] # RefPage(last)[j] /\ SrcPage(last)[j] = RefPage(last)[j]
           /\ mem[mem_phys2pi(PGADDR(PteAt(M, last.dpd, last.dva)))][i]
                  = SrcPage(last)[i]
           /\ mem[mem_phys2pi(PGADDR(PteAt(M, last.dpd, last.dva)))][j]
                  = DstPage(last)[j]

\* C4: when reference, source and destination disagree in three ways at some
\* word, pmap_mergepage takes one reference from the destination page and
\* leaves the destination PTE PTE_ZERO, and the kernel does not stop:
\* pmap_merge goes on with the next page.
C4_ConflictDropsPage ==
    (Merged("mergepage") /\ \E i \in PTIdx : ConflictAt(last, i))
        => LET d == mem_phys2pi(PGADDR(PteAt(last.pre, last.dpd, last.dva)))
           IN  /\ fault = "none"
               /\ last.conflict
               /\ PteAt(M, last.dpd, last.dva) = PTE_ZERO
               /\ refcount[d] = last.pre.rc[d] - 1

\* C5: after pmap_remove(pd, v, n) every PTE slot of pd in [v, v+n) equals
\* PTE_ZERO exactly, nominal permission bits cleared too, whatever the slot
\* held before.
C5_RemoveLeavesPteZero ==
    Done("remove")
        => \A va \in RangeOf(last) : PteAt(M, last.pd, va) = PTE_ZERO

\* C6: after pmap_remove(pd, v, n) the refcount of every frame that slots of
\* the range mapped is lower by exactly the number of those slots, and a
\* frame that had no other reference has refcount 0 and is on the free list.
C6_RemoveReleasesFrames ==
    Done("remove")
        => \A f \in UserFrames :
               LET n == SlotRefs(last.pre, last.pd, f, RangeOf(last)) IN
               n > 0 => /\ refcount[f] = last.pre.rc[f] - n
                        /\ (last.pre.rc[f] = n
                               => refcount[f] = 0 /\ f \in SeqSet(freelist))
                        /\ (last.pre.rc[f] > n => f \notin SeqSet(freelist))

\* a pmap_remove took one of two references of a frame, the other one being
\* a slot outside the range
C6_Witness ==
    /\ Done("remove")
    /\ \E f \in UserFrames :
           /\ SlotRefs(last.pre, last.pd, f, RangeOf(last)) = 1
           /\ SlotRefs(last.pre, last.pd, f, VPages \ RangeOf(last)) = 1
           /\ last.pre.rc[f] = 2
           /\ refcount[f] = 1

\* C7 as claimed: pmap_insert(pd, f, v, perm) followed by
\* pmap_remove(pd, v, PAGESIZE) leaves f.refcount at its value before the
\* pmap_insert, for any frame f.
C7_RoundTripAnyFrame ==
    (Done("remove") /\ last.undo.pi # NULLPI)
        => refcount[last.undo.pi] = last.undo.rc

\* C7 amended: the round trip leaves f.refcount at its value before the
\* pmap_insert when slot v did not map f before the pmap_insert, and one
\* lower when it did.
C7_RoundTrip ==
    (Done("remove") /\ last.undo.pi # NULLPI)
        => refcount[last.undo.pi] =
               IF last.undo.mapped THEN last.undo.rc - 1 ELSE last.undo.rc

\* a round trip of a frame that has another mapping, at a slot that mapped
\* something else
C7_Witness ==
    /\ Done("remove") /\ last.undo.pi # NULLPI
    /\ ~last.undo.mapped
    /\ last.undo.rc = 1
    /\ refcount[last.undo.pi] = 1

\* rec is a pmap_insert of the frame that its slot already maps
Reinsert(rec) == MapsFrame(rec.pre, rec.pd, rec.va, rec.pi)

\* C8: a pmap_insert of the frame that the slot already maps leaves the
\* refcount as it was, and neither in the middle of the call nor after it is
\* the refcount 0 or the frame on the free list, also when the slot is the
\* only reference.
C8_ReinsertKeepsFrame ==
    /\ (pc = "insert" /\ fault = "none" /\ Reinsert(ctx))
           => refcount[ctx.pi] > 0 /\ ctx.pi \notin SeqSet(freelist)
    /\ (Done("insert") /\ Reinsert(last))
           => /\ last.pte # NULL
              /\ refcount[last.pi] = last.pre.rc[last.pi]
              /\ refcount[last.pi] > 0
              /\ last.pi \notin SeqSet(freelist)
              /\ MapsFrame(M, last.pd, last.va, last.pi)

\* the frame's only reference was the slot it is inserted at again
C8_Witness ==
    /\ Done("insert") /\ Reinsert(last)
    /\ last.pre.rc[last.pi] = 1
    /\ refcount[last.pi] = 1

\* the frame g that the slot of the pmap_insert in rec mapped before
OldFrame(rec) == mem_phys2pi(PGADDR(PteAt(rec.pre, rec.pd, rec.va)))
Replaces(rec) ==
    /\ rec.pre.pd[rec.pd][PDX(rec.va)] # PTE_ZERO
    /\ OldFrame(rec) \in UserFrames \ {rec.pi}

\* C9: a successful pmap_insert(pd, f, v, perm) at a slot that mapped another
\* frame g leaves PTE(v) = addr(f) | perm | P, f.refcount one higher,
\* g.refcount one lower, g on the free list if that made it 0, and every
\* other PTE of every directory as it was.
C9_InsertReplaces ==
    (Done("insert") /\ last.pte # NULL
     /\ Replaces(last))
        => LET g == OldFrame(last) IN
           /\ PteAt(M, last.pd, last.va)
                  = BitOr(BitOr(mem_pi2phys(last.pi), last.perm), PTE_P)
           /\ refcount[last.pi] = last.pre.rc[last.pi] + 1
           /\ refcount[g] = last.pre.rc[g] - 1
           /\ (refcount[g] = 0 <=> g \in SeqSet(freelist))
           /\ \A d \in Dirs, va \in VPages :
                  (d # last.pd \/ va # last.va)
                      => PteAt(M, d, va) = PteAt(last.pre, d, va)

\* the old mapping had PTE_U and was the last reference of g, the new one
\* has perm 0
C9_Witness ==
    /\ Done("insert") /\ last.pte # NULL
    /\ Replaces(last)
    /\ Has(PteAt(last.pre, last.pd, last.va), PTE_U)
    /\ last.perm = 0
    /\ last.pre.rc[OldFrame(last)] = 1
    /\ OldFrame(last) \in SeqSet(freelist)

\* C10: pmap_insert at an address whose PDE is PTE_ZERO, with no frame on the
\* free list, returns NULL and changes nothing.
C10_InsertNoMemory ==
    (last.op = "insert" /\ pc = "idle"
     /\ last.pre.pd[last.pd][PDX(last.va)] = PTE_ZERO /\ last.pre.fl = <<>>)
        => /\ last.pte = NULL
           /\ M = last.pre
           /\ pdir[last.pd][PDX(last.va)] = PTE_ZERO
           /\ refcount[last.pi] = last.pre.rc[last.pi]

\* the directory had no page table for the address and no frame was free
C10_Witness ==
    /\ last.op = "insert" /\ pc = "idle"
    /\ last.pre.pd[last.pd][PDX(last.va)] = PTE_ZERO /\ last.pre.fl = <<>>
    /\ last.pte = NULL

\* the page tables of rec's range: those whose whole region the range
\* covers, and those it covers in part
WholeIn(rec, x) ==
    rec.va <= x * PTSIZE /\ (x + 1) * PTSIZE <= rec.va + rec.size
PartIn(rec, x) ==
    ~WholeIn(rec, x) /\ \E va \in RangeOf(rec) : PDX(va) = x
Unaligned(rec) ==
    rec.va % PTSIZE # 0 \/ (rec.va + rec.size) % PTSIZE # 0
TableOf(m, pd, x) == mem_phys2pi(PGADDR(m.pd[pd][x]))

\* C11: after a pmap_remove whose range is not PTSIZE-aligned and spans
\* several page tables, every page table wholly inside the range has its
\* PDE at PTE_ZERO and its frame free, every frame is down by one reference
\* for each slot of the range that mapped it, and a page table covered in
\* part keeps its PDE and its slots outside the range.
C11_BulkRemove ==
    Done("remove") /\ Unaligned(last)
        /\ Cardinality({PDX(va) : va \in RangeOf(last)}) > 1
        => /\ \A x \in PDIdx :
                  WholeIn(last, x)
                      => /\ pdir[last.pd][x] = PTE_ZERO
                         /\ last.pre.pd[last.pd][x] # PTE_ZERO
                                => /\ refcount[TableOf(last.pre, last.pd, x)] = 0
                                   /\ TableOf(last.pre, last.pd, x)
                                          \in SeqSet(freelist)
           /\ \A f \in UserFrames :
                  SlotRefs(last.pre, last.pd, f, RangeOf(last)) > 0
                      => refcount[f] = last.pre.rc[f]
                              - SlotRefs(last.pre, last.pd, f, RangeOf(last))
           /\ \A x \in PDIdx :
                  PartIn(last, x)
                      => /\ pdir[last.pd][x] = last.pre.pd[last.pd][x]
                         /\ \A va \in VPages \ RangeOf(last) :
                                PDX(va) = x
                                    => PteAt(M, last.pd, va)
                                           = PteAt(last.pre, last.pd, va)

\* a remove with a head span, a whole page table and a tail span, each of
\* the three page tables holding mappings, the outer two also outside the
\* range
C11_Witness ==
    /\ Done("remove")
    /\ last.va = 1 /\ last.size = 2 * PTSIZE
    /\ \A va \in {0, 1, PTSIZE, 2 * PTSIZE, 2 * PTSIZE + 1} :
           MapsFrame(last.pre, last.pd, va, 2)
    /\ pdir[last.pd][1] = PTE_ZERO
    /\ MapsFrame(M, last.pd, 0, 2) /\ MapsFrame(M, last.pd, 2 * PTSIZE + 1, 2)

\* C12: pmap_walk on a PDE equal to PTE_ZERO, with writing set and a frame
\* free, installs a page table taken from the free list, all its entries
\* PTE_ZERO, its refcount 1, the PDE with flags P|W|U|A, and returns the
\* entry of va; with writing clear or no frame free it returns NULL and
\* changes nothing.  On a PDE that references a page table it returns the
\* entry of va in that table and changes nothing.
C12_Walk ==
    Done("walk")
        => IF last.pre.pd[last.pd][PDX(last.va)] = PTE_ZERO
           THEN IF last.writing /\ last.pre.fl # <<>>
                THEN /\ last.pte # NULL
                     /\ last.pte.i = PTX(last.va)
                     /\ last.pte.f \in SeqSet(last.pre.fl)
                     /\ last.pte.f \notin SeqSet(freelist)
                     /\ \A i \in PTIdx : mem[last.pte.f][i] = PTE_ZERO
                     /\ refcount[last.pte.f] = 1
                     /\ pdir[last.pd][PDX(last.va)]
                            = mem_pi2phys(last.pte.f) + PTE_P + PTE_W + PTE_U + PTE_A
                ELSE last.pte = NULL /\ M = last.pre
           ELSE /\ last.pte = Ptr(TableOf(last.pre, last.pd, PDX(last.va)),
                                  PTX(last.va))
                /\ M = last.pre

\* a page table was made out of a frame that held something else
C12_Witness ==
    /\ Done("walk")
    /\ last.pre.pd[last.pd][PDX(last.va)] = PTE_ZERO
    /\ last.writing /\ last.pte # NULL
    /\ \E i \in PTIdx : last.pre.mem[last.pte.f][i] # PTE_ZERO
    /\ refcount[last.pte.f] = 1

C14_ZeroFrameIntact ==
    /\ \A i \in PTIdx : mem[ZeroFrame][i] = 0
    /\ fault # "allocator"

\* C15: in every page directory the PDEs outside the user window are what
\* pmap_init made them, the 4MB identity mapping of their index with
\* P|W|PS|G and without U, whatever operations ran.
C15_KernelPDEs ==
    \A d \in Dirs, x \in KernIdx :
        /\ pdir[d][x] = KernPDE(x)
        /\ Has(pdir[d][x], PTE_P) /\ Has(pdir[d][x], PTE_W)
        /\ Has(pdir[d][x], PTE_PS) /\ Has(pdir[d][x], PTE_G)
        /\ ~Has(pdir[d][x], PTE_U)
        /\ pdir[d][x] - (pdir[d][x] % (PTSIZE * PAGESIZE))
               = (PDXLO + x) * PTSIZE * PAGESIZE

\* a pmap_copy whose destination range ends at the top of the window
\* wrote the last user PDE, next to a kernel PDE
C15_Witness ==
    /\ Done("copy") /\ last.dva + last.size = VM_USERHI
    /\ pdir[last.dpd][UserPDEs - 1] # last.pre.pd[last.dpd][UserPDEs - 1]

\* the range [uva, uva + size) lies in the user window, in unbounded integers
InWindow(uva, size) ==
    uva >= VM_USERLO_ADDR /\ uva < VM_USERHI_ADDR
        /\ uva + size <= VM_USERHI_ADDR

\* C16: usercopy copies only when uva >= VM_USERLO, uva < VM_USERHI and
\* size <= VM_USERHI - uva, so that a range whose end wraps around the word
\* is refused; for every other range nothing is copied, no page is touched,
\* the recovery hook stays as it was, and the user's frame is reflected
\* with T_PGFLT, error code 0 and nothing else changed.
C16_CheckVa ==
    last.op = "usercopy" =>
        /\ last.r.copied > 0 => InWindow(last.uva, last.size)
        /\ ~InWindow(last.uva, last.size) =>
              /\ last.r.copied = 0
              /\ M = last.pre
              /\ cpu = last.hook
              /\ last.r.steps = <<"proc_ret0">>
              /\ last.r.tf = [last.utf EXCEPT !.trapno = T_PGFLT, !.err = 0]
              /\ last.r.tf.eip = last.utf.eip

\* a range that starts in the window and whose end wraps was refused
C16_Witness ==
    /\ last.op = "usercopy"
    /\ last.uva >= VM_USERLO_ADDR /\ last.uva < VM_USERHI_ADDR
    /\ last.uva + last.size >= Word32
    /\ (last.uva + last.size) % Word32 <= VM_USERHI_ADDR
    /\ last.r.steps = <<"proc_ret0">>

\* the copy of the last usercopy was left by its recovery hook
CopyAborted ==
    /\ last.op = "usercopy" /\ fault = "none"
    /\ \E i \in DOMAIN last.r.steps : last.r.steps[i] = "recover"

\* C17: when a trap in usercopy's copy is not resolved as a copy-on-write
\* fault, the recovery hook is cleared, the user's frame gets the trap number
\* and the error code of the trap in the copy and keeps everything else,
\* its eip too, and is reflected to the parent; the copy is not resumed.
C17_CopyAborted ==
    CopyAborted =>
        /\ cpu.recover = "NULL"
        /\ last.r.tf = [last.utf EXCEPT !.trapno = last.r.ktf.trapno,
                                        !.err = last.r.ktf.err]
        /\ last.r.tf.eip = last.utf.eip /\ last.r.tf.cs = last.utf.cs
        /\ last.r.steps[Len(last.r.steps)] = "proc_ret0"
        /\ last.r.steps[Len(last.r.steps) - 1] = "recover"
        /\ \A i \in DOMAIN last.r.steps : last.r.steps[i] # "return"

\* a copy was aborted on its second page, after a page had been copied
C17_Witness ==
    /\ CopyAborted /\ last.r.copied = 1
    /\ last.r.ktf.cs = 0 /\ last.r.ktf.eip # last.utf.eip
    /\ last.r.tf.trapno = T_PGFLT /\ last.r.tf.err = last.r.ktf.err

LaterSteps ==
    {"lapic_eoi", "lapic_errintr", "e100_intr", "kbd_intr", "serial_intr",
     "net_tick", "proc_yield", "syscall", "do_cputs", "do_put", "do_get",
     "do_ret", "net_migrate", "proc_ret-1", "trap_print", "panic"}

\* the page-fault resolver did not complete the last trap and gave it back
\* to trap()
NotResolved ==
    /\ last.op = "trap" /\ fault = last.pre.fault
    /\ last.steps # <<"pmap_pagefault", "trap_return">>

\* C19: for a trap that the page-fault resolver does not complete, whatever
\* its vector, a set recovery hook is called with the frame and recoverdata
\* right away, and no acknowledgement, driver, system call, reflection or
\* panic follows.
C19_HookFirst ==
    (NotResolved /\ last.hook.recover # "NULL") =>
        /\ \E i \in DOMAIN last.steps :
              /\ last.steps[i] = "recover"
              /\ \A j \in 1 .. (i - 1) : last.steps[j] = "pmap_pagefault"
        /\ \A i \in DOMAIN last.steps : last.steps[i] \notin LaterSteps
        /\ (last.hook.recover = "trap_check_recover"
                /\ "reip" \in DOMAIN last.hook.recoverdata) =>
              /\ last.tf = [last.tfin EXCEPT !.eip = last.hook.recoverdata.reip]
              /\ cpu.recoverdata.trapno = last.tfin.trapno

\* the hook took a system call's trap and a keyboard interrupt
C19_Witness ==
    /\ NotResolved /\ last.hook.recover = "trap_check_recover"
    /\ last.tfin.trapno \in {T_SYSCALL, T_IRQ0 + IRQ_KBD}
    /\ last.steps = <<"recover", "trap_return">>
    /\ cpu.recoverdata.trapno = last.tfin.trapno

\* interrupts that trap() knows, and the system calls that syscall() knows
Recognised(tf) ==
    tf.trapno \in {T_IRQ0 + e100_irq, T_LTIMER, T_IRQ0 + IRQ_SPURIOUS,
                   T_IRQ0 + IRQ_KBD, T_IRQ0 + IRQ_SERIAL}
DefinedSyscall(tf) ==
    tf.trapno = T_SYSCALL
        /\ tf.eax % (SYS_TYPE + 1) \in {SYS_CPUTS, SYS_PUT, SYS_GET, SYS_RET}

\* C20: a trap from user mode with no recovery hook set that is not a
\* resolved copy-on-write fault, an interrupt the kernel knows or a defined
\* system call is reflected to the parent with the frame as it came, after
\* a migration home when the process is away; the kernel does not panic.
C20_Reflected ==
    (last.op = "trap" /\ last.pre.fault = "none"
        /\ last.steps # <<"pmap_pagefault", "trap_return">>
        /\ last.tfin.cs % 4 # 0 /\ last.hook.recover = "NULL"
        /\ ~Recognised(last.tfin) /\ ~DefinedSyscall(last.tfin)) =>
        /\ fault = "none"
        /\ last.tf = last.tfin
        /\ last.steps[Len(last.steps)] = "proc_ret-1"
        /\ (~last.athome) =>
              /\ Len(last.steps) >= 2
              /\ last.steps[Len(last.steps) - 1] = "net_migrate"
        /\ last.athome =>
              \A i \in DOMAIN last.steps : last.steps[i] # "net_migrate"
        /\ \A i \in DOMAIN last.steps :
              last.steps[i] \notin {"panic", "trap_print", "trap_return"}

\* the last trap was a fault on a copy-on-write page of the window
CowFault ==
    /\ last.op = "trap" /\ last.tfin.trapno = T_PGFLT
    /\ last.tfin.fva \in VPages
    /\ Has(PteAt(last.pre, last.tfin.pd, last.tfin.fva), SYS_WRITE)
    /\ ~Has(PteAt(last.pre, last.tfin.pd, last.tfin.fva), PTE_W)

\* C21: a trap from kernel mode with no recovery hook set that is not a
\* resolved copy-on-write fault, an interrupt the kernel knows or a system
\* call ends in panic, and cons_lock is not held by this CPU when the frame
\* is printed and panic called: it is released first if it was held.
C21_KernelTrapPanics ==
    (last.op = "trap" /\ last.pre.fault = "none"
        /\ last.tfin.cs % 4 = 0 /\ last.hook.recover = "NULL"
        /\ ~(CowFault /\ last.steps = <<"pmap_pagefault", "trap_return">>)
        /\ last.steps # <<"pmap_pagefault">>
        /\ ~Recognised(last.tfin) /\ last.tfin.trapno # T_SYSCALL) =>
        /\ fault = "panic"
        /\ Len(last.steps) >= 2
        /\ last.steps[Len(last.steps)] = "panic"
        /\ last.steps[Len(last.steps) - 1] = "trap_print"
        /\ ~cpu.cons_lock
        /\ last.hook.cons_lock =>
              /\ Len(last.steps) >= 3
              /\ last.steps[Len(last.steps) - 2] = "spinlock_release"

\* the last trap came with the hook and the data of the trap self-test set,
\* and was none that the page-fault resolver looks at
SelfTestTrap ==
    /\ last.op = "trap" /\ last.tfin.trapno # T_PGFLT
    /\ last.hook.recover = "trap_check_recover"
    /\ "reip" \in DOMAIN last.hook.recoverdata

\* C22: with the hook of the self-test installed a trap resumes at the
\* resume address that the caller gave, with the vector recorded in the
\* caller's data and no field of the frame changed but eip; after the
\* self-test the hook and its data pointer are both clear.
C22_SelfTest ==
    /\ SelfTestTrap =>
          /\ last.steps = <<"recover", "trap_return">>
          /\ last.tf = [last.tfin EXCEPT !.eip = last.hook.recoverdata.reip]
          /\ cpu = [last.hook EXCEPT !.recoverdata.trapno = last.tfin.trapno]
          /\ M = last.pre
    /\ last.op = "trap_check_end" =>
          cpu.recover = "NULL" /\ cpu.recoverdata = NoHook.recoverdata

\* a general protection fault of the kernel was resumed at the second label
C22_Witness ==
    /\ SelfTestTrap /\ last.tfin.trapno = T_GPFLT /\ last.tfin.cs = 0
    /\ last.hook.recoverdata.trapno # T_GPFLT
    /\ cpu.recoverdata.trapno = T_GPFLT
    /\ last.tf.eip = ResumeEip + 2 /\ last.tfin.eip # last.tf.eip

\* C23: whenever an operation has changed a PTE of the directory that is
\* installed on the CPU, the TLB holds no translation of that page from
\* before the change when control is back in user mode: every cached
\* translation is the one the page tables give.
C23_TlbCurrent ==
    (pc = "idle" /\ fault = "none") =>
        \A e \in cpu.tlb : PteAt(M, CurDir, e.va) = e.pte

\* C24: pmap_setperm with SYS_READ on a slot that is PTE_ZERO leaves a
\* read-only mapping of the zero frame: the PTE has the address of pmap_zero,
\* PTE_P and PTE_U set, PTE_W clear and SYS_READ set, so that the user can
\* read zeros from the page.
C24_ReadOnlyZero ==
    (Done("setperm") /\ Has(last.perm, SYS_READ)) =>
        \A va \in last.va .. (last.va + last.size - 1) :
            PteAt(last.pre, last.pd, va) = PTE_ZERO =>
                /\ PGADDR(PteAt(M, last.pd, va)) = PTE_ZERO
                /\ Has(PteAt(M, last.pd, va), PTE_P)
                /\ Has(PteAt(M, last.pd, va), PTE_U)
                /\ ~Has(PteAt(M, last.pd, va), PTE_W)
                /\ Has(PteAt(M, last.pd, va), SYS_READ)
                /\ \A i \in PTIdx : mem[ZeroFrame][i] = 0

\* what C25 says of the copy-on-write fault in last, f the frame before
CowResolved(f) ==
    /\ fault = "none"
    /\ last.steps = <<"pmap_pagefault", "trap_return">>
    /\ PGOFF(PteAt(M, last.tfin.pd, last.tfin.fva))
           = BitClear(BitOr(PGOFF(PteAt(last.pre, last.tfin.pd, last.tfin.fva)),
                            PTE_W + PTE_P),
                      SYS_RW)
    /\ IF f = ZeroFrame \/ last.pre.rc[f] > 1
       THEN /\ FrameAt(M, last.tfin.pd, last.tfin.fva) \in SeqSet(last.pre.fl)
            /\ refcount[FrameAt(M, last.tfin.pd, last.tfin.fva)] = 1
            /\ mem[FrameAt(M, last.tfin.pd, last.tfin.fva)] = last.pre.mem[f]
            /\ refcount[f] = IF f = ZeroFrame THEN last.pre.rc[f]
                             ELSE last.pre.rc[f] - 1
       ELSE /\ FrameAt(M, last.tfin.pd, last.tfin.fva) = f
            /\ refcount = last.pre.rc
            /\ freelist = last.pre.fl

\* C25: for a fault in the user window on a PTE with PTE_W clear and
\* SYS_WRITE set the resolver gives the page a new frame of refcount 1 with
\* a copy of the old page when the frame is ZERO or shared, taking one
\* reference from the old frame unless it is ZERO, and keeps the frame of a
\* sole owner without allocating; the flags are the old ones with PTE_W and
\* PTE_P set and SYS_RW clear, and the faulting instruction is resumed.
C25_CowResolver ==
    (CowFault /\ last.pre.fault = "none") =>
        CowResolved(FrameAt(last.pre, last.tfin.pd, last.tfin.fva))

\* C26: a page fault that is no copy-on-write fault (PTE_W set or SYS_WRITE
\* clear) or lies outside of the user window is not completed by the
\* resolver, whatever the saved eip: the PTE keeps its frame and flags,
\* trap_return is not called, and the resolver returns to trap().
C26_GenuineFault ==
    (last.op = "trap" /\ last.tfin.trapno = T_PGFLT /\ last.pre.fault = "none"
        /\ ~CowFault) =>
        /\ fault \in {"none", "panic"}
        /\ last.tfin.fva \in VPages =>
              PteAt(M, last.tfin.pd, last.tfin.fva)
                  = PteAt(last.pre, last.tfin.pd, last.tfin.fva)
        /\ Len(last.steps) >= 2
        /\ last.steps[1] = "pmap_pagefault"
        /\ last.steps[2] # "trap_return"

\* the pages that the copy of the usercopy in last goes through
CopyPages ==
    IF last.size = 0 THEN {}
    ELSE UvaPage(last.uva) .. UvaPage((last.uva + last.size - 1) % Word32)

\* the kernel can get at page va as the copy in last needs to, or page va is
\* write-protected for copy-on-write
CopyCanPass(va) ==
    \/ KernCanAccess(last.pre, last.utf.pd, va, last.copyout)
    \/ /\ Has(PteAt(last.pre, last.utf.pd, va), SYS_WRITE)
       /\ ~Has(PteAt(last.pre, last.utf.pd, va), PTE_W)

\* C27: a page fault of usercopy's copy on a page that is write-protected
\* for copy-on-write is resolved and the copy goes on: the hook is not
\* called and the system call is not aborted, so a copy over pages that are
\* accessible or copy-on-write gets to its end.
C27_CopyThroughCow ==
    (last.op = "usercopy" /\ last.pre.fault = "none"
        /\ InWindow(last.uva, last.size)
        /\ \A va \in CopyPages : CopyCanPass(va)) =>
        /\ fault = "none"
        /\ last.r.copied = Cardinality(CopyPages)
        /\ last.r.steps[Len(last.r.steps)] = "return"
        /\ \A i \in DOMAIN last.r.steps :
              last.r.steps[i] \in {"pmap_pagefault", "trap_return", "return"}
        /\ last.r.tf = last.utf

\* ------------------------------------------------------ copies of a range
\* the directory of pmap_check or of the process with its first table
\* granted; frames inserted, permissions set, stores, frames taken from the
\* free list, and copies of whole page tables to the child and back
CopyPts   == {0, PTSIZE}
CopyLens  == {PTSIZE, VM_USERHI}

InitCopy == InitBulk \/ InitCow

NextCopy ==
    \/ InsertBegin("p", 2, 1, PTE_U + PTE_W)
    \/ InsertEnd
    \/ \E va \in {0, PTSIZE} : SetPerm("p", va, 1, SYS_RW)
    \/ UserWrite("p", 0, 0, 7)
    \/ MemAlloc
    \/ \E sva \in CopyPts, dva \in CopyPts, size \in CopyLens :
           /\ size <= VM_USERHI - sva /\ size <= VM_USERHI - dva
           /\ Copy("p", sva, "c", dva, size)
    \/ Copy("c", 0, "p", PTSIZE, PTSIZE)

SpecCopy == InitCopy /\ [][NextCopy]_vars

\* the page tables of the range of the pmap_copy in last, counted from its
\* first, and those the source has a table for
CopyRange  == 0 .. ((last.size \div PTSIZE) - 1)
CopiedPDEs ==
    {k \in CopyRange : PGADDR(last.pre.pd[last.spd][PDX(last.sva) + k]) # PTE_ZERO}
SrcTab(k)  == TableOf(last.pre, last.spd, PDX(last.sva) + k)
DstTab(k)  == TableOf(M, last.dpd, PDX(last.dva) + k)
SrcWas(k, i) == last.pre.mem[SrcTab(k)][i]
Mapping(k, i) == PGADDR(SrcWas(k, i)) # PGADDR(PTE_ZERO)
\* the source entries of the page tables ks that map frame f
MapsIn(ks, f) ==
    {e \in ks \X PTIdx :
        Mapping(e[1], e[2]) /\ mem_phys2pi(PGADDR(SrcWas(e[1], e[2]))) = f}
MapsOf(f) == MapsIn(CopiedPDEs, f)

\* what pmap_copy leaves in the entries, the tables and the PDEs of the
\* page tables ks
EntriesOk(ks) ==
    \A k \in ks, i \in PTIdx : Mapping(k, i) =>
        /\ ~Has(mem[SrcTab(k)][i], PTE_W)
        /\ Has(mem[SrcTab(k)][i], SYS_WRITE)
              <=> (Has(SrcWas(k, i), PTE_W) \/ Has(SrcWas(k, i), SYS_WRITE))
        /\ PGADDR(mem[SrcTab(k)][i]) = PGADDR(SrcWas(k, i))
TablesOk(ks) ==
    \A k \in ks :
        /\ mem[DstTab(k)] = mem[SrcTab(k)]
        /\ DstTab(k) # SrcTab(k)
        /\ \E j \in DOMAIN last.pre.fl : last.pre.fl[j] = DstTab(k)
        /\ refcount[DstTab(k)] = 1
        /\ PGOFF(pdir[last.dpd][PDX(last.dva) + k])
              = PGOFF(last.pre.pd[last.spd][PDX(last.sva) + k])
        /\ pdir[last.spd][PDX(last.sva) + k]
              = last.pre.pd[last.spd][PDX(last.sva) + k]
CopyEntriesOk == EntriesOk(CopiedPDEs)
CopyTablesOk  == TablesOk(CopiedPDEs)

\* the statement as the specification has it: each frame that a source
\* entry maps has its refcount raised by exactly 1
C28_Original ==
    (Done("copy") /\ last.ret = 1) =>
        /\ CopyEntriesOk /\ CopyTablesOk
        /\ \A k \in CopiedPDEs, i \in PTIdx : Mapping(k, i) =>
              refcount[mem_phys2pi(PGADDR(SrcWas(k, i)))]
                  = last.pre.rc[mem_phys2pi(PGADDR(SrcWas(k, i)))] + 1

\* C28: after a successful pmap_copy, for every source page table of the
\* range, each source entry that maps a frame other than ZERO has W clear
\* and SYS_WRITE set exactly when it was writable before; the destination's
\* table holds the source's entries; the destination PDE references a table
\* newly allocated, distinct from the source's, with refcount 1 and the
\* source PDE's flags; and the refcount of each mapped frame has risen by 1
\* for every source entry of the range that maps it.
C28_CopyPost ==
    (Done("copy") /\ last.ret = 1) =>
        /\ CopyEntriesOk /\ CopyTablesOk
        /\ \A f \in UserFrames : MapsOf(f) # {} =>
              refcount[f] = last.pre.rc[f] + Cardinality(MapsOf(f))

\* a copy of two page tables, one of them with an entry that was writable,
\* and a frame that two entries of the range map
C28_Witness ==
    /\ Done("copy") /\ last.ret = 1
    /\ Cardinality(CopiedPDEs) >= 2
    /\ \E k \in CopiedPDEs, i \in PTIdx : Mapping(k, i) /\ Has(SrcWas(k, i), PTE_W)
    /\ \E f \in UserFrames : Cardinality(MapsOf(f)) >= 2

\* the page table of the range at which the pmap_copy in last finds the
\* free list empty: as many source tables before it as there were frames
CopyFailsAt(k) ==
    /\ k \in CopiedPDEs
    /\ Cardinality({j \in CopiedPDEs : j < k}) = Len(last.pre.fl)
CopyArgsOk ==
    /\ last.sva % PTSIZE = 0 /\ last.dva % PTSIZE = 0 /\ last.size % PTSIZE = 0
    /\ last.sva >= 0 /\ last.dva >= 0
    /\ last.size <= VM_USERHI - last.sva /\ last.size <= VM_USERHI - last.dva

\* C29: a pmap_copy that runs out of frames partway returns 0: the PDEs
\* before the failure are installed, their source entries write-protected
\* and their frames' refcounts incremented; the PDE being processed and all
\* later PDEs of source and destination, and the source tables they
\* reference, are as they were.
C29_CopyPartial ==
    (pc = "idle" /\ last.op = "copy" /\ last.pre.fault = "none" /\ CopyArgsOk) =>
        \A kf \in CopyRange : CopyFailsAt(kf) =>
            /\ fault = "none" /\ last.ret = 0
            /\ EntriesOk({k \in CopiedPDEs : k < kf})
            /\ TablesOk({k \in CopiedPDEs : k < kf})
            /\ \A k \in CopyRange \ CopiedPDEs : k < kf =>
                  pdir[last.dpd][PDX(last.dva) + k]
                      = last.pre.pd[last.spd][PDX(last.sva) + k]
            /\ \A f \in UserFrames :
                  MapsIn({k \in CopiedPDEs : k < kf}, f) # {} =>
                      refcount[f] = last.pre.rc[f]
                          + Cardinality(MapsIn({k \in CopiedPDEs : k < kf}, f))
            /\ \A k \in CopyRange : k >= kf =>
                  /\ pdir[last.spd][PDX(last.sva) + k]
                        = last.pre.pd[last.spd][PDX(last.sva) + k]
                  /\ pdir[last.dpd][PDX(last.dva) + k]
                        = last.pre.pd[last.dpd][PDX(last.dva) + k]
                  /\ k \in CopiedPDEs => mem[SrcTab(k)] = last.pre.mem[SrcTab(k)]

\* a copy of three page tables that found one frame free: the first table
\* was copied, with an entry that maps a frame, the second was not
C29_Witness ==
    /\ Done("copy") /\ last.ret = 0
    /\ \E kf \in CopyRange :
          /\ CopyFailsAt(kf)
          /\ \E k \in CopiedPDEs, i \in PTIdx : k < kf /\ Mapping(k, i)
          /\ \E k \in CopiedPDEs : k > kf

\* the source and destination entries of the slot in last before pmap_merge
\* came to it, and the frames they reference
SrcWasPte == PteAt(last.pre, last.spd, last.sva)
DstWasPte == PteAt(last.pre, last.dpd, last.dva)
SrcFrame  == mem_phys2pi(PGADDR(SrcWasPte))
DstFrame  == mem_phys2pi(PGADDR(DstWasPte))

\* the entries after the adoption: equal, write-protected, the source's
\* frame and page as they were
AdoptedPtes ==
    /\ PteAt(M, last.dpd, last.dva) = PteAt(M, last.spd, last.sva)
    /\ ~Has(PteAt(M, last.spd, last.sva), PTE_W)
    /\ (Has(SrcWasPte, PTE_W) \/ Has(SrcWasPte, SYS_WRITE))
          => Has(PteAt(M, last.spd, last.sva), SYS_WRITE)
    /\ PGADDR(PteAt(M, last.spd, last.sva)) = PGADDR(SrcWasPte)
    /\ mem[SrcFrame] = last.pre.mem[SrcFrame]

InvalDone ==
    IF last.size = 1
    THEN /\ last.tlbop = "invlpg"
         /\ cpu.tlb = {e \in last.hook.tlb : e.va # last.va}
         /\ cpu.cr3 = last.hook.cr3
    ELSE /\ last.tlbop = "lcr3"
         /\ cpu.tlb = {}
         /\ cpu.cr3 = last.pd

FreeFrames == {freelist[j] : j \in DOMAIN freelist}

\* no PDE of the user window and no PTE of a page table that a directory
\* holds references a frame of the free list
NoFreedMapped ==
    \A d \in Dirs, x \in 0 .. (UserPDEs - 1) :
        pdir[d][x] # PTE_ZERO =>
            /\ TableOf(M, d, x) \notin FreeFrames
            /\ \A i \in PTIdx :
                  PGADDR(mem[TableOf(M, d, x)][i]) # PTE_ZERO =>
                      mem_phys2pi(PGADDR(mem[TableOf(M, d, x)][i])) \notin FreeFrames

\* C32: while pmap_remove runs, head, bulk or tail span, a frame is released
\* only after the PTE or PDE that referenced it was set to PTE_ZERO: between
\* two statements of the operation no PTE and no PDE of a directory
\* references a frame that is on the free list.
C32_UnmapFirst ==
    (pc = "remove" /\ fault = "none") => NoFreedMapped

\* the slot of the operation in last was PTE_ZERO with nothing but nominal
\* permission and PTE_U added, SYS_WRITE among it
ZeroWritable(pte) ==
    /\ PGADDR(pte) = PTE_ZERO
    /\ Has(pte, SYS_WRITE) /\ ~Has(pte, PTE_W) /\ ~Has(pte, PTE_P)

\* C33: SYS_WRITE added to a slot that is PTE_ZERO leaves SYS_WRITE set and
\* PTE_W clear; the first user store to such a slot is resolved by the
\* copy-on-write resolver: the page gets a frame from the free list with
\* refcount 1 that holds zeros but for the word stored, PTE_W is set, and
\* the refcount of the ZERO frame is what it was.
C33_ZeroCow ==
    /\ (last.op = "setperm" /\ pc = "idle" /\ last.pre.fault = "none"
          /\ Has(last.perm, SYS_WRITE) /\ last.size = 1 /\ last.va \in VPages
          /\ last.pre.pd[last.pd][PDX(last.va)] # PTE_ZERO
          /\ PteAt(last.pre, last.pd, last.va) = PTE_ZERO) =>
             /\ fault = "none"
             /\ ZeroWritable(PteAt(M, last.pd, last.va))
    /\ (last.op = "write" /\ pc = "idle" /\ last.pre.fault = "none"
          /\ last.va \in VPages
          /\ last.pre.pd[last.pd][PDX(last.va)] # PTE_ZERO
          /\ ZeroWritable(PteAt(last.pre, last.pd, last.va))) =>
             /\ fault = "none" /\ last.faulted /\ last.done
             /\ FrameAt(M, last.pd, last.va) \in
                   {last.pre.fl[j] : j \in DOMAIN last.pre.fl}
             /\ refcount[FrameAt(M, last.pd, last.va)] = 1
             /\ \A i \in PTIdx :
                   mem[FrameAt(M, last.pd, last.va)][i]
                       = IF i = last.idx THEN last.val ELSE 0
             /\ Has(PteAt(M, last.pd, last.va), PTE_W)
             /\ refcount[ZeroFrame] = last.pre.rc[ZeroFrame]
             /\ mem[ZeroFrame] = last.pre.mem[ZeroFrame]

\* C34: whenever usercopy runs in a system call, CPUTS or PUT or GET with
\* SYS_REGS, the lock of the calling process is not held by this CPU, and
\* it is not held when usercopy is over, completed or aborted through the
\* recovery handler.
C34_NoLockInCopy ==
    last.op = "usercopy" => (~last.hook.plock /\ ~cpu.plock)

\* a PUT with SYS_REGS whose usercopy was aborted by the recovery handler
C34_Witness ==
    /\ last.op = "usercopy" /\ last.utf.eax = SYS_PUT
    /\ CopyAborted
    /\ ~cpu.plock

\* the reference entry of the slot in last before pmap_merge came to it
RefWasPte == PteAt(last.pre, last.rpd, last.sva)

\* C35: for a slot that pmap_merge goes through whose source PTE equals the
\* reference PTE, the destination is left as it was, also when its PTE
\* differs from the reference: the destination PTE keeps its value, no frame
\* is allocated or released and no refcount changes, and the destination
\* page holds what it held.
C35_SourceUnchanged ==
    (last.op = "merge_slot" /\ pc \in {"idle", "merge"}
        /\ last.kind \in {"same", "adopt", "mergepage"}
        /\ SrcWasPte = RefWasPte) =>
        /\ fault = "none"
        /\ PteAt(M, last.dpd, last.dva) = DstWasPte
        /\ freelist = last.pre.fl
        /\ refcount = last.pre.rc
        /\ mem[DstFrame] = last.pre.mem[DstFrame]

\* C36: pmap_merge never dereferences a NULL PTE pointer: in a region that
\* it goes through, a slot for which the reference, the source or the
\* destination directory has no page table is handled without a read or a
\* write through the pointer that pmap_walk did not return.
C36_NoNullDeref ==
    (last.op = "merge_slot" /\ last.pre.fault = "none") => last.kind # "fault"

\* C37: pmap_mergepage stores merged words only into a frame that the
\* destination PTE alone references: a frame whose contents the merge of a
\* slot changed, the destination's page table aside, is not the ZERO frame,
\* and it is a frame taken from the free list for the private copy or the
\* destination's frame with refcount 1.
C37_MergePrivate ==
    (last.op = "merge_slot" /\ last.kind = "mergepage"
        /\ last.pre.fault = "none") =>
        \A f \in DOMAIN mem \ {TableOf(last.pre, last.dpd, PDX(last.dva))} :
            mem[f] # last.pre.mem[f] =>
                /\ f # ZeroFrame
                /\ \/ \E j \in DOMAIN last.pre.fl : last.pre.fl[j] = f
                   \/ f = DstFrame /\ last.pre.rc[f] = 1

\* ------------------------------------------------ pmap_copy onto mappings
\* the page tables the destination range held before the copy, and the
\* frames their entries mapped
OldDstTabs ==
    {TableOf(last.pre, last.dpd, PDX(last.dva) + k) : k \in
        {j \in CopyRange :
            last.pre.pd[last.dpd][PDX(last.dva) + j] # PTE_ZERO}}
OldDstFrames ==
    OldDstTabs \cup
        {mem_phys2pi(PGADDR(last.pre.mem[t][i])) : <<t, i>> \in
            {e \in OldDstTabs \X PTIdx :
                PGADDR(last.pre.mem[e[1]][e[2]]) # PGADDR(PTE_ZERO)}}

\* C38: after pmap_copy onto a destination range that held page tables or
\* mappings, every frame that was referenced through the old destination
\* range has a refcount equal to the number of PDEs and PTEs that still
\* reference it, so a frame referenced only through that range has
\* refcount 0.
C38_CopyReleases ==
    (pc = "idle" /\ last.op = "copy" /\ last.ret = 1 /\ fault = "none") =>
        \A f \in OldDstFrames :
            refcount[f] = Cardinality(PdeRefs(f)) + Cardinality(PteRefs(f))

\* ------------------------------------------- the memory operation of a call
\* PGOFF(a) == 0 for a register value a (in words)
PageAligned(a) == a % PageWords = 0

\* pmap_remove, pmap_copy and pmap_merge called with register values: the
\* asserts on the offset within a page, then the function on page numbers
remove_regs(m, pd, dva, size) ==
    IF ~(PageAligned(dva) /\ PageAligned(size)) THEN Fail(m, "assert")
    ELSE pmap_remove(m, pd, UvaPage(dva), size \div PageWords)
copy_regs(m, spd, sva, dpd, dva, size) ==
    IF ~(PageAligned(sva) /\ PageAligned(dva) /\ PageAligned(size))
    THEN Fail(m, "assert")
    ELSE pmap_copy(m, spd, UvaPage(sva), dpd, UvaPage(dva),
                   size \div PageWords).m
merge_regs(m, rpd, spd, sva, dpd, dva, size) ==
    IF ~(PageAligned(sva) /\ PageAligned(dva) /\ PageAligned(size))
    THEN Fail(m, "assert")
    ELSE pmap_merge(m, rpd, spd, UvaPage(sva), dpd, UvaPage(dva),
                    size \div PageWords)

\* The memory operation of do_put (lines 156-162) and do_get (lines
\* 241-252) on the parent "p" and its child "c" with snapshot "r"; memop is
\* the operation the flags select ("merge" has the bits of both "zero" and
\* "copy", and do_put tests the bit of "zero" first); trap: checkva
\* reflected a page fault to the parent
sys_memop(m, cmd, memop, sva, dva, size) ==
    IF cmd = SYS_GET /\ memop = "merge"
    THEN [m |-> merge_regs(m, "r", "c", sva, "p", dva, size), trap |-> FALSE]
    ELSE IF memop \in {"zero", "merge"}
    THEN IF checkva(dva, size) THEN [m |-> m, trap |-> TRUE]
         ELSE [m |-> remove_regs(m, IF cmd = SYS_PUT THEN "c" ELSE "p",
                                 dva, size),
               trap |-> FALSE]
    ELSE IF checkva(sva, size) \/ checkva(dva, size)
    THEN [m |-> m, trap |-> TRUE]
    ELSE IF cmd = SYS_PUT
    THEN [m |-> copy_regs(m, "p", sva, "c", dva, size), trap |-> FALSE]
    ELSE [m |-> copy_regs(m, "c", sva, "p", dva, size), trap |-> FALSE]

SysMemop(cmd, memop, sva, dva, size) ==
    /\ Ready
    /\ \E r \in {sys_memop(M, cmd, memop, sva, dva, size)} :
       /\ Commit(r.m)
       /\ last' = [op |-> "memop", cmd |-> cmd, memop |-> memop, sva |-> sva,
                   dva |-> dva, size |-> size, trap |-> r.trap, pre |-> M]
    /\ nops' = nops + 1
    /\ cpu' = [cpu EXCEPT !.tlb = {}]
    /\ UNCHANGED <<pc, ctx>>

\* register values at and around the ends of the user window
MemopVas ==
    {VM_USERLO_ADDR - PageWords, VM_USERLO_ADDR, VM_USERLO_ADDR + 1,
     VM_USERLO_ADDR + PageWords, VM_USERLO_ADDR + PTSIZE * PageWords,
     VM_USERHI_ADDR}
MemopSvas  == {VM_USERLO_ADDR, VM_USERLO_ADDR + PageWords, VM_USERHI_ADDR}
MemopSizes == {PageWords, PageWords + 1, PTSIZE * PageWords}

InitMemop == InitCow \/ InitMerge

NextMemop ==
    \/ \E cmd \in {SYS_PUT, SYS_GET}, memop \in {"zero", "copy", "merge"},
          sva \in MemopSvas, dva \in MemopVas, size \in MemopSizes :
           SysMemop(cmd, memop, sva, dva, size)
    \/ UserWrite("p", 0, 0, 7)

SpecMemop == InitMemop /\ [][NextMemop]_vars

\* the range of the call is misaligned for its operation or outside the
\* user window
MemopMisaligned ==
    \/ ~(PageAligned(last.dva) /\ PageAligned(last.size))
    \/ last.memop = "copy" /\ ~PageAligned(last.sva)
    \/ /\ \/ last.memop = "copy"
          \/ last.memop = "merge" /\ last.cmd = SYS_GET
       /\ \/ UvaPage(last.sva) % PTSIZE # 0
          \/ UvaPage(last.dva) % PTSIZE # 0
          \/ (last.size \div PageWords) % PTSIZE # 0
MemopOutside ==
    \/ checkva(last.dva, last.size)
    \/ /\ \/ last.memop = "copy"
          \/ last.memop = "merge" /\ last.cmd = SYS_GET
       /\ checkva(last.sva, last.size)

\* C39: the memory operation of a PUT or GET never ends in a failed assert
\* of pmap_remove, pmap_copy or pmap_merge, and a range that is misaligned
\* for the operation or outside the user window is refused by a trap
\* reflected to the parent with page tables, refcounts and pages as before.
C39_RangesRejected ==
    (last.op = "memop" /\ last.pre.fault = "none") =>
        /\ fault # "assert"
        /\ (MemopMisaligned \/ MemopOutside) =>
               /\ last.trap
               /\ mem = last.pre.mem /\ pdir = last.pre.pd
               /\ refcount = last.pre.rc

\* ---------------------------------------------- allocation failure on demand
\* the store of last faulted with the free list empty and its resolver has
\* to ask for a frame: for the page table of the address, or for the copy
\* of a copy-on-write page that is ZERO or shared
WriteNeedsFrame ==
    /\ last.op = "write" /\ last.faulted
    /\ last.pre.fault = "none" /\ last.pre.fl = <<>>
    /\ last.va >= 0 /\ last.va < VM_USERHI
    /\ \/ last.pre.pd[last.pd][PDX(last.va)] = PTE_ZERO
       \/ /\ last.pre.pd[last.pd][PDX(last.va)] # PTE_ZERO
          /\ ~Has(PteAt(last.pre, last.pd, last.va), PTE_W)
          /\ Has(PteAt(last.pre, last.pd, last.va), SYS_WRITE)
          /\ \/ PGADDR(PteAt(last.pre, last.pd, last.va)) = PTE_ZERO
             \/ last.pre.rc[mem_phys2pi(
                    PGADDR(PteAt(last.pre, last.pd, last.va)))] > 1

\* the per-page merge of last ran with the free list empty on a destination
\* that is present, copy-on-write and shared
MergeNeedsFrame ==
    /\ last.op = "merge_slot" /\ last.kind = "mergepage"
    /\ last.pre.fault = "none" /\ last.pre.fl = <<>>
    /\ Has(DstWasPte, PTE_P) /\ ~Has(DstWasPte, PTE_W)
    /\ Has(DstWasPte, SYS_WRITE)
    /\ last.pre.rc[DstFrame] > 1

\* C40: when the page-fault resolver or the per-page merge has to ask for a
\* frame and the free list is empty, no NULL result is dereferenced, page
\* tables, pages and refcounts stay as they were, and a faulting store is
\* not resolved.
C40_OomLeftAlone ==
    (WriteNeedsFrame \/ MergeNeedsFrame) =>
        /\ fault = "none"
        /\ mem = last.pre.mem /\ refcount = last.pre.rc
        /\ last.op = "write" => ~last.done

====
